---- MODULE Spec2Model ----
(***************************************************************************)
(* Model of the fallback orchestrator of src/scraper.rs (fetch_detail) and *)
(* of the four source adapters it sequences: the commercial catalog (DMM), *)
(* the primary metadata source (JavDB), the secondary metadata source      *)
(* (JavLibrary) and the torrent index (Sukebei); and of the listing        *)
(* operations search, list_actor_titles and top.                           *)
(*                                                                         *)
(* Spec is one invocation of fetch_detail, SearchSpec one of search (with  *)
(* the fetch_detail it may call), ListingSpec one of list_actor_titles or  *)
(* top, AggregateSpec the row insert of the torrent index's adapter,       *)
(* CompletionSpec one of search or list_actor_titles with every step that  *)
(* can be taken being taken, ActorsSpec one of actors, RankSpec the        *)
(* ranking of the install command, and ExtractSpec, DurationSpec and       *)
(* IsoSpec one call of extract_code_from_title, of the duration part of    *)
(* parse_javdb_detail and of parse_iso8601_duration_minutes.               *)
(*                                                                         *)
(* A u32 or usize, which can pass the range of a signed 32-bit integer, is *)
(* a record [hi, lo] standing for hi * 65536 + lo.                         *)
(*                                                                         *)
(* Strings whose content the code inspects (identifiers, titles) are       *)
(* sequences of one-character strings; every other string is opaque.       *)
(* Option<T> is a sequence of length at most one: None == <<>>,            *)
(* Some(v) == <<v>>.  Result<T> is [ok, err, val].                         *)
(***************************************************************************)
EXTENDS Integers, Sequences, FiniteSets, TLC

\* ------------------------------------------------------------------ bounds
\* at most this many magnet links on one page
MaxMagnets == 2

\* the longest list of magnet records the install command is given to rank
MaxRanked == 3

\* the longest text, of those built from the alphabet, that the identifier is
\* extracted from
MaxText == 4

\* at most this many actor boxes, or actor anchors, on one page
MaxEntries == 3

\* ------------------------------------------------------------ Option/Result
None == <<>>
Some(v) == <<v>>

\* Ok(d) of Result<AvDetail> and Ok(Some(d)) of Result<Option<AvDetail>>
OkRec(d) == [ok |-> TRUE, err |-> "", val |-> Some(d)]
\* Ok(None) of Result<Option<AvDetail>>
OkNone == [ok |-> TRUE, err |-> "", val |-> None]
Err(e) == [ok |-> FALSE, err |-> e, val |-> None]
\* the pattern  if let Ok(d) = ...  and  if let Ok(Some(d)) = ...
IsHit(r) == r.ok /\ r.val # None

Range(s) == {s[i] : i \in 1..Len(s)}

\* ------------------------------------------------------------------ strings
LowerLetters == <<"a", "b", "d", "s", "x", "y">>
UpperLetters == <<"A", "B", "D", "S", "X", "Y">>
Digits == {"0", "1", "2", "3", "4", "5", "6", "7", "8", "9"}

\* two characters outside ASCII, each written as one character of a string:
\* LATIN SMALL LETTER LONG S, which Unicode's simple case folding puts with s
\* and S, and ARABIC-INDIC DIGIT THREE, a decimal digit
LongS == "U+017F"
ArabicIndicThree == "U+0663"

\* (?i)[a-z]: the patterns are compiled by Regex::new without (?-u), and
\* under (?i) a class holds every character that case-folds into it
IsLetter(c) == c \in Range(LowerLetters) \cup Range(UpperLetters) \cup {LongS}

\* \d without (?-u): every decimal digit of Unicode
IsDigit(c) == c \in Digits \cup {ArabicIndicThree}

\* char::to_uppercase; the upper case of the long s is S
ToUpperChar(c) ==
    IF c = LongS THEN "S"
    ELSE IF \E i \in 1..Len(LowerLetters) : LowerLetters[i] = c
    THEN UpperLetters[CHOOSE i \in 1..Len(LowerLetters) : LowerLetters[i] = c]
    ELSE c

\* str::to_uppercase
ToUpper(s) == [i \in 1..Len(s) |-> ToUpperChar(s[i])]

ToLowerChar(c) ==
    IF \E i \in 1..Len(UpperLetters) : UpperLetters[i] = c
    THEN LowerLetters[CHOOSE i \in 1..Len(UpperLetters) : UpperLetters[i] = c]
    ELSE c

\* str::to_lowercase
ToLower(s) == [i \in 1..Len(s) |-> ToLowerChar(s[i])]

\* str::contains
Contains(s, sub) ==
    \E i \in 0..(Len(s) - Len(sub)) :
        \A j \in 1..Len(sub) : s[i + j] = sub[j]

\* number of leading characters of s that satisfy the class
RECURSIVE LeadingLetters(_)
LeadingLetters(s) ==
    IF s # <<>> /\ IsLetter(Head(s)) THEN 1 + LeadingLetters(Tail(s)) ELSE 0

RECURSIVE LeadingDigits(_)
LeadingDigits(s) ==
    IF s # <<>> /\ IsDigit(Head(s)) THEN 1 + LeadingDigits(Tail(s)) ELSE 0

Drop(s, n) == SubSeq(s, n + 1, Len(s))

\* (?i)^[a-z]{2,5}-?\d{2,5}
looks_like_code(s) ==
    LET n == LeadingLetters(s)
        rest == Drop(s, n)
        digs == IF rest # <<>> /\ Head(rest) = "-" THEN Tail(rest) ELSE rest
    IN  /\ n >= 2
        /\ n <= 5
        /\ LeadingDigits(digs) >= 2

\* --------------------------------------------------------------- the record
\* types.rs AvDetail
AvDetail(code, title, actor_names, release_date, cover_url, plot, duration_minutes, director, studio, label, series, genres, rating, preview_images, magnet_infos, magnets) ==
    [code |-> code, title |-> title, actor_names |-> actor_names,
     release_date |-> release_date, cover_url |-> cover_url, plot |-> plot,
     duration_minutes |-> duration_minutes, director |-> director,
     studio |-> studio, label |-> label, series |-> series,
     genres |-> genres, rating |-> rating,
     preview_images |-> preview_images, magnet_infos |-> magnet_infos,
     magnets |-> magnets]

\* types.rs MagnetInfo
MagnetInfo(url, name, size, date, seeders, leechers, downloads, resolution, codec, avg_bitrate_mbps) ==
    [url |-> url, name |-> name, size |-> size, date |-> date,
     seeders |-> seeders, leechers |-> leechers, downloads |-> downloads,
     resolution |-> resolution, codec |-> codec,
     avg_bitrate_mbps |-> avg_bitrate_mbps]

\* the URIs of a list of magnet records, in order
Urls(infos) == [i \in 1..Len(infos) |-> infos[i].url]

\* the optional scalar fields and the list fields of AvDetail, magnets apart
OptionalFields ==
    {"actor_names", "release_date", "cover_url", "plot", "duration_minutes",
     "director", "studio", "label", "series", "genres", "rating",
     "preview_images"}
MagnetFields == {"magnet_infos", "magnets"}
RequiredFields == {"code", "title"}
AllFields == RequiredFields \cup OptionalFields \cup MagnetFields

\* the value a source's page shows for a field: distinct per source, so that
\* a merged record tells which source each field came from
FieldValue(src, f) ==
    CASE f = "duration_minutes" ->
            Some(CASE src = "dmm" -> 119 [] src = "javdb" -> 120 [] OTHER -> 121)
      [] f = "rating" ->
            Some(CASE src = "dmm" -> 41 [] src = "javdb" -> 42 [] OTHER -> 43)
      [] OTHER -> Some(<<f, src>>)

\* the sets of fields a page may lack: none, any single one, or all
MissSets(fields) == {{}, fields} \cup {{f} : f \in fields}

Shown(src, f, miss) == IF f \in miss THEN None ELSE FieldValue(src, f)

MagnetUris == {"magnet:1", "magnet:2"}
\* a magnet link that only a listing row of the torrent index carries
RowOnlyUri == "magnet:3"

RECURSIVE SeqsUpTo(_, _)
SeqsUpTo(S, n) ==
    IF n = 0 THEN {<<>>}
    ELSE LET shorter == SeqsUpTo(S, n - 1)
         IN  shorter \cup {Append(s, x) : s \in shorter, x \in S}

\* ------------------------------------------------- commercial catalog (DMM)
\* dmm_enabled with one token being enough
dmm_enabled_EitherToken(api_id, affiliate_id) ==
    api_id # None \/ affiliate_id # None

\* sources/dmm.rs dmm_enabled: both tokens set and non-empty
dmm_enabled(api_id, affiliate_id) == api_id # None /\ affiliate_id # None

\* the fields an ItemList item can carry (it never carries a plot)
DmmFields == OptionalFields \ {"plot"}

\* one item of the ItemList answer: its title, if any, and the fields it lacks
DmmItems ==
    {[title |-> Some(<<"D">>), miss |-> m] : m \in MissSets(DmmFields)}
    \cup {[title |-> None, miss |-> {}]}

\* what the catalog API answers: a transport failure, a body that is not
\* JSON, or a list of items
DmmWorlds ==
    {[status |-> "transport", items |-> <<>>],
     [status |-> "badjson", items |-> <<>>],
     [status |-> "ok", items |-> <<>>]}
    \cup {[status |-> "ok", items |-> <<it>>] : it \in DmmItems}

\* Option::unwrap_or_default on a string
UnwrapOrDefault(o) == IF o = None THEN <<>> ELSE o[1]

\* sources/dmm.rs fetch_detail_from_dmm
fetch_detail_from_dmm(code, api_id, affiliate_id, w) ==
    IF ~dmm_enabled(api_id, affiliate_id) THEN OkNone
    ELSE IF w.status = "transport" THEN Err("transport")
    ELSE IF w.status = "badjson" THEN Err("parse")
    ELSE IF w.items = <<>> THEN OkNone
    ELSE LET it == w.items[1]
             sh(f) == Shown("dmm", f, it.miss)
         IN  OkRec((AvDetail(ToUpper(code), UnwrapOrDefault(it.title),
                 sh("actor_names"), sh("release_date"), sh("cover_url"), None,
                 sh("duration_minutes"), sh("director"), sh("studio"),
                 sh("label"), sh("series"), sh("genres"), sh("rating"),
                 sh("preview_images"), <<>>, <<>>)))

\* the catalog answered the request with a body that is JSON
DmmAnswered(w) == w.status = "ok"

\* ------------------------------------------ primary metadata source (JavDB)
\* the texts of the detail page's ".panel-block .value" nodes
PanelValueLists ==
    {<<>>,
     << <<"a", "b", "-", "1", "2">> >>,
     << <<"1", "2">>, <<"x", "y", "9", "9">> >>}

\* a detail page, described by what the selectors of parse_javdb_detail find
JavdbPages ==
    {[title |-> <<"J">>, values |-> << <<"a", "b", "-", "1", "2">> >>,
      miss |-> m, magnets |-> <<>>] : m \in MissSets(OptionalFields)}
    \cup {[title |-> <<"J">>, values |-> << <<"a", "b", "-", "1", "2">> >>,
           miss |-> {}, magnets |-> mg] :
                mg \in SeqsUpTo({"magnet:1"}, MaxMagnets)}
    \cup {[title |-> t, values |-> v, miss |-> {}, magnets |-> <<>>] :
                t \in {<<>>, <<"J">>}, v \in PanelValueLists}

\* scraper.rs parse_javdb_detail, lines 265-272: the first panel value that
\* looks like a code, upper-cased; the empty string when there is none
RECURSIVE FirstCode(_)
FirstCode(values) ==
    IF values = <<>> THEN <<>>
    ELSE IF looks_like_code(Head(values)) THEN ToUpper(Head(values))
    ELSE FirstCode(Tail(values))

\* scraper.rs extract_magnet_infos_from_javdb
extract_magnet_infos_from_javdb(magnets) ==
    [i \in 1..Len(magnets) |->
        MagnetInfo(magnets[i], None, None, None, None, None, None, None, None,
                   None)]

\* scraper.rs parse_javdb_detail: fetch is the outcome of the page request
parse_javdb_detail(fetch, page) ==
    IF fetch = "transport" THEN Err("transport")
    ELSE LET sh(f) == Shown("javdb", f, page.miss)
         IN  OkRec(AvDetail(FirstCode(page.values), page.title,
                 sh("actor_names"), sh("release_date"), sh("cover_url"),
                 sh("plot"), sh("duration_minutes"), sh("director"),
                 sh("studio"), sh("label"), sh("series"), sh("genres"),
                 sh("rating"), sh("preview_images"),
                 extract_magnet_infos_from_javdb(page.magnets), page.magnets))

NoJavdbPage == [title |-> <<>>, values |-> <<>>, miss |-> {}, magnets |-> <<>>]

\* what the primary source answers to a search and to the detail request:
\* search is a transport failure, a page that is the detail page itself, a
\* result list with a first link, or a result list without one
JavdbWorlds ==
    {[search |-> "transport", fetch |-> "ok", page |-> NoJavdbPage],
     [search |-> "nohref", fetch |-> "ok", page |-> NoJavdbPage],
     [search |-> "href", fetch |-> "transport", page |-> NoJavdbPage]}
    \cup {[search |-> s, fetch |-> "ok", page |-> p] :
                s \in {"detail", "href"}, p \in JavdbPages}

\* scraper.rs fetch_detail_from_javdb
fetch_detail_from_javdb(code, w) ==
    IF w.search = "transport" THEN Err("transport")
    ELSE IF w.search = "detail" THEN parse_javdb_detail(w.fetch, w.page)
    ELSE IF w.search = "nohref" THEN Err("notfound")
    ELSE parse_javdb_detail(w.fetch, w.page)

\* the primary source answered the search and, if one was made, the request
\* for the detail page
JavdbAnswered(w) ==
    /\ w.search # "transport"
    /\ w.search = "href" => w.fetch = "ok"

\* ------------------------------------ secondary metadata source (JavLibrary)
\* the fields a JavLibrary page can carry
JavlibraryFields ==
    {"actor_names", "release_date", "cover_url", "duration_minutes", "studio",
     "label", "series", "genres"}

\* a detail page: its title, the text of "#video_id .text" if that node
\* exists, and the fields it lacks
JavlibraryPages ==
    {[title |-> <<"L">>, video_id |-> None, miss |-> m] :
        m \in {{}, JavlibraryFields}}
    \cup {[title |-> <<>>, video_id |-> Some(<<>>), miss |-> {}],
          [title |-> <<"L">>, video_id |-> Some(<<"a", "b", "-", "1", "2">>),
           miss |-> {}]}

NoJavlibraryPage == [title |-> <<>>, video_id |-> None, miss |-> {}]

\* search: a transport failure, no locale answering with success, a result
\* page without a link, or a result page with one
JavlibraryWorlds ==
    {[search |-> "transport", fetch |-> "ok", page |-> NoJavlibraryPage],
     [search |-> "nosuccess", fetch |-> "ok", page |-> NoJavlibraryPage],
     [search |-> "nolink", fetch |-> "ok", page |-> NoJavlibraryPage],
     [search |-> "link", fetch |-> "transport", page |-> NoJavlibraryPage]}
    \cup {[search |-> "link", fetch |-> "ok", page |-> p] :
                p \in JavlibraryPages}

\* sources/javlibrary.rs fetch_detail_from_javlibrary
fetch_detail_from_javlibrary(code, w) ==
    IF w.search = "transport" THEN Err("transport")
    ELSE IF w.search = "nosuccess" THEN OkNone
    ELSE IF w.search = "nolink" THEN OkNone
    ELSE IF w.fetch = "transport" THEN Err("transport")
    ELSE LET page == w.page
             sh(f) == Shown("javlibrary", f, page.miss)
             code_text == IF page.video_id = None THEN ToUpper(code)
                          ELSE page.video_id[1]
         IN  OkRec((AvDetail(code_text, page.title, sh("actor_names"),
                 sh("release_date"), sh("cover_url"), None,
                 sh("duration_minutes"), None, sh("studio"), sh("label"),
                 sh("series"), sh("genres"), None, <<>>, <<>>, <<>>)))

\* some locale of the secondary source answered the search with a success
\* status and, if a link was followed, the detail page was delivered
JavlibraryAnswered(w) ==
    /\ w.search \in {"nolink", "link"}
    /\ w.search = "link" => w.fetch = "ok"

\* ------------------------------------------------- torrent index (Sukebei)
\* a title that contains both spellings of the identifier used below
MatchTitle == <<"a", "b", "-", "1", "2", " ", "A", "B", "1", "2">>
OtherTitle == <<"x", "y", "-", "9", "9">>

\* one row of the listing table: the title link's text and href, the row's
\* magnet link, and the size, date, seeders, leechers, downloads cells
SukebeiRow(title, href, magnet) ==
    [title |-> title, href |-> href, magnet |-> magnet,
     size |-> Some("1.4 GiB"), date |-> Some("2024-01-02"),
     seeders |-> Some(7), leechers |-> Some(1), downloads |-> Some(30)]

SukebeiListings ==
    {<<>>,
     <<SukebeiRow(OtherTitle, Some("/view/1"), Some("magnet:1"))>>,
     <<SukebeiRow(MatchTitle, None, Some("magnet:1")),
       SukebeiRow(MatchTitle, Some("/view/2"), None)>>}
    \cup {<<SukebeiRow(OtherTitle, Some("/view/1"), Some("magnet:1")),
             SukebeiRow(MatchTitle, Some("/view/2"), mg)>> :
                mg \in {None, Some("magnet:1"), Some(RowOnlyUri)}}

\* a torrent's detail page: the ".torrent-name" text if the node exists, the
\* hrefs of its magnet anchors in document order, the hints read from the
\* name, the cells of its first table row and a duration token in its text
SukebeiPage(torrent_name, magnets, full) ==
    [torrent_name |-> torrent_name, magnets |-> magnets,
     resolution |-> IF full THEN Some("1080p") ELSE None,
     codec |-> IF full THEN Some("HEVC") ELSE None,
     size |-> IF full THEN Some("2.0 GiB") ELSE None,
     seeders |-> IF full THEN Some(3) ELSE None,
     leechers |-> IF full THEN Some(0) ELSE None,
     downloads |-> IF full THEN Some(12) ELSE None,
     duration |-> IF full THEN Some(120) ELSE None]

SukebeiPages ==
    {SukebeiPage(None, mg, FALSE) : mg \in {<<>>, <<"magnet:2">>}}
    \cup {SukebeiPage(Some(<<"S">>), mg, TRUE) :
                mg \in SeqsUpTo(MagnetUris, MaxMagnets)}
    \cup {SukebeiPage(Some(<<" ">>), <<>>, FALSE)}

NoSukebeiPage == SukebeiPage(None, <<>>, FALSE)

SukebeiWorlds ==
    {[listing |-> "transport", rows |-> <<>>, fetch |-> "ok",
      page |-> NoSukebeiPage]}
    \cup {[listing |-> "ok", rows |-> l, fetch |-> "transport",
           page |-> NoSukebeiPage] : l \in SukebeiListings}
    \cup {[listing |-> "ok", rows |-> l, fetch |-> "ok", page |-> p] :
                l \in SukebeiListings, p \in SukebeiPages}

\* str::trim().is_empty()
IsBlank(s) == \A i \in 1..Len(s) : s[i] = " "

\* scraper.rs fetch_detail_from_sukebei, lines 540-552: the first row whose
\* upper-cased title contains the code and whose title link has an href
RECURSIVE FirstMatchingRow(_, _)
FirstMatchingRow(rows, code) ==
    IF rows = <<>> THEN None
    ELSE IF Contains(ToUpper(Head(rows).title), code) /\ Head(rows).href # None
         THEN Some(Head(rows))
         ELSE FirstMatchingRow(Tail(rows), code)

\* the derived bitrate hint: a term over the size text and the duration
EstimateBitrate(size, duration) ==
    IF size # None /\ duration # None
    THEN Some(<<"mbps", size[1], duration[1]>>)
    ELSE None

\* scraper.rs extract_magnet_infos_from_sukebei
extract_magnet_infos_from_sukebei(page, magnets) ==
    LET title == UnwrapOrDefault(page.torrent_name)
    IN  [i \in 1..Len(magnets) |->
            MagnetInfo(magnets[i],
                       IF title # <<>> THEN Some(title) ELSE None,
                       page.size, None, page.seeders, page.leechers,
                       page.downloads, page.resolution, page.codec,
                       EstimateBitrate(page.size, page.duration))]

\* scraper.rs parse_sukebei_detail
parse_sukebei_detail(fetch, page, code, title_guess) ==
    IF fetch = "transport" THEN Err("transport")
    ELSE LET title_text ==
                 IF page.torrent_name # None /\ ~IsBlank(page.torrent_name[1])
                 THEN page.torrent_name[1]
                 ELSE title_guess
         IN  OkRec(AvDetail(ToUpper(code), title_text, <<>>, None, None, None,
                 None, None, None, None, None, <<>>, None, <<>>,
                 extract_magnet_infos_from_sukebei(page, page.magnets),
                 page.magnets))

\* the insert of lines 577-599 without the tests of lines 591 and 596
InsertRowMagnet_AlwaysAppends(detail, row) ==
    IF row.magnet = None THEN detail
    ELSE LET mag == row.magnet[1]
             mi == MagnetInfo(mag, Some(row.title), row.size, row.date,
                              row.seeders, row.leechers, row.downloads, None,
                              None, None)
         IN  [detail EXCEPT
                !.magnet_infos = Append(@, mi),
                !.magnets = Append(@, mag)]

\* scraper.rs fetch_detail_from_sukebei, lines 577-599: the matching row's
\* magnet is inserted into both lists unless its URI is already there
InsertRowMagnet(detail, row) ==
    IF row.magnet = None THEN detail
    ELSE LET mag == row.magnet[1]
             mi == MagnetInfo(mag, Some(row.title), row.size, row.date,
                              row.seeders, row.leechers, row.downloads, None,
                              None, None)
             exists == \E i \in 1..Len(detail.magnet_infos) :
                            detail.magnet_infos[i].url = mi.url
         IN  [detail EXCEPT
                !.magnet_infos = IF exists THEN @ ELSE Append(@, mi),
                !.magnets = IF mag \in Range(@) THEN @ ELSE Append(@, mag)]

\* scraper.rs fetch_detail_from_sukebei
fetch_detail_from_sukebei(code, w) ==
    IF w.listing = "transport" THEN Err("transport")
    ELSE LET first == FirstMatchingRow(w.rows, code)
         IN  IF first = None THEN Err("notfound")
             ELSE LET parsed == parse_sukebei_detail(w.fetch, w.page, code,
                                                     first[1].title)
                  IN  IF ~parsed.ok THEN parsed
                      ELSE OkRec(InsertRowMagnet(parsed.val[1], first[1]))

\* the torrent index answered the listing request and, if a row matched, the
\* request for the torrent's page
SukebeiAnswered(code, w) ==
    /\ w.listing = "ok"
    /\ FirstMatchingRow(w.rows, code) # None => w.fetch = "ok"

\* ---------------------------------------------------------------- listings
\* at most this many cards or rows on one listing page
MaxCards == 2
\* top is called with a limit of at most this
MaxLimit == 3

\* types.rs AvItem
AvItem(code, title) == [code |-> code, title |-> title]

\* Ok(items) of Result<Vec<AvItem>>
OkItems(its) == [ok |-> TRUE, err |-> "", val |-> its]

\* Result::unwrap_or_default on a list
UnwrapOrEmpty(r) == IF r.ok THEN r.val ELSE <<>>

\* str::trim
RECURSIVE TrimStart(_)
TrimStart(s) == IF s # <<>> /\ Head(s) = " " THEN TrimStart(Tail(s)) ELSE s

RECURSIVE TrimEnd(_)
TrimEnd(s) ==
    IF s # <<>> /\ s[Len(s)] = " " THEN TrimEnd(SubSeq(s, 1, Len(s) - 1))
    ELSE s

Trim(s) == TrimEnd(TrimStart(s))

\* [-_ ]
Separators == {"-", "_", " "}

\* (?i)([a-z]{2,5})[-_ ]?(\d{2,5}) matched at the start of s: the letters
\* upper-cased, a hyphen, the digits
MatchCodeAt(s) ==
    LET n == LeadingLetters(s)
        rest == Drop(s, n)
        digs == IF rest # <<>> /\ Head(rest) \in Separators THEN Tail(rest)
                ELSE rest
        k == LeadingDigits(digs)
    IN  IF n >= 2 /\ n <= 5 /\ k >= 2
        THEN Some(ToUpper(SubSeq(s, 1, n)) \o <<"-">>
                  \o SubSeq(digs, 1, IF k > 5 THEN 5 ELSE k))
        ELSE None

\* scraper.rs extract_code_from_title: the leftmost match in the title
RECURSIVE extract_code_from_title(_)
extract_code_from_title(title) ==
    IF title = <<>> THEN None
    ELSE IF MatchCodeAt(title) # None THEN MatchCodeAt(title)
    ELSE extract_code_from_title(Tail(title))

\* one card of a JavDB listing page: its title text and the last segment of
\* its href
Card(title, slug) == [title |-> title, slug |-> slug]

JavdbCards ==
    {Card(<<"a", "b", "-", "1", "2">>, <<"k", "1">>),
     Card(<<"J">>, <<"x", "y">>),
     Card(<<"J">>, <<>>),
     Card(<<>>, <<"x", "y">>)}

\* what JavDB answers to a listing request: a transport failure or a page
JavdbListWorlds ==
    {[status |-> "transport", cards |-> <<>>]}
    \cup {[status |-> "ok", cards |-> c] : c \in SeqsUpTo(JavdbCards, MaxCards)}

\* scraper.rs lines 653-658 and 153-157: the item of one card, if it has a
\* code and a title
CardItem(card) ==
    LET found == extract_code_from_title(card.title)
        code == IF found # None THEN found[1] ELSE card.slug
    IN  IF code # <<>> /\ card.title # <<>>
        THEN Some(AvItem(ToUpper(code), card.title))
        ELSE None

RECURSIVE CardItems(_)
CardItems(cards) ==
    IF cards = <<>> THEN <<>>
    ELSE CardItem(Head(cards)) \o CardItems(Tail(cards))

\* scraper.rs search_javdb
search_javdb(q, w) ==
    IF w.status = "transport" THEN Err("transport")
    ELSE OkItems(CardItems(w.cards))

\* scraper.rs lines 670-677 and 692-698: the item of one title, if a code can
\* be read from it
TitleItem(title) ==
    LET found == extract_code_from_title(title)
    IN  IF found # None THEN Some(AvItem(ToUpper(found[1]), title)) ELSE None

RECURSIVE TitleItems(_)
TitleItems(titles) ==
    IF titles = <<>> THEN <<>>
    ELSE TitleItem(Head(titles)) \o TitleItems(Tail(titles))

\* the title links of the rows of a Sukebei listing
SukebeiTitles == {MatchTitle, OtherTitle, <<"S">>}

\* what Sukebei answers to a search: a transport failure or a listing
SukebeiListWorlds ==
    {[status |-> "transport", titles |-> <<>>]}
    \cup {[status |-> "ok", titles |-> t] :
                t \in SeqsUpTo(SukebeiTitles, MaxCards)}

\* scraper.rs search_sukebei
search_sukebei(q, w) ==
    IF w.status = "transport" THEN Err("transport")
    ELSE OkItems(TitleItems(w.titles))

\* scraper.rs list_actor_javdb: the cards' ".video-title" texts
list_actor_javdb(actor, w) ==
    IF w.status = "transport" THEN Err("transport")
    ELSE OkItems(TitleItems([i \in 1..Len(w.cards) |-> w.cards[i].title]))

\* scraper.rs list_actor_sukebei
list_actor_sukebei(actor, w) == search_sukebei(actor, w)

\* scraper.rs top, lines 151-159: the cards of one page pushed onto items;
\* full tells that the limit was reached and top returned
RECURSIVE TopCards(_, _, _)
TopCards(its, cards, lim) ==
    IF cards = <<>> THEN [items |-> its, full |-> FALSE]
    ELSE LET it == CardItem(Head(cards))
             pushed == its \o it
         IN  IF it = None THEN TopCards(its, Tail(cards), lim)
             ELSE IF Len(pushed) >= lim THEN [items |-> pushed, full |-> TRUE]
             ELSE TopCards(pushed, Tail(cards), lim)

\* ------------------------------------------------- install: ranking magnets
\* the key with an unknown count ranked below every known count
SeedersKey_UnknownLast(m) == IF m.seeders = None THEN 0 - 1 ELSE m.seeders[1]

\* main.rs line 81, the key of the comparison: seeders.unwrap_or(0)
SeedersKey(m) == IF m.seeders = None THEN 0 ELSE m.seeders[1]

\* the comparison is b.key.cmp(a.key), descending: m goes before the first
\* record of a sorted list whose key is smaller, and so behind every record
\* with the same key (sort_by is stable)
RECURSIVE InsertRanked(_, _)
InsertRanked(sorted, m) ==
    IF sorted = <<>> THEN <<m>>
    ELSE IF SeedersKey(Head(sorted)) < SeedersKey(m) THEN <<m>> \o sorted
    ELSE <<Head(sorted)>> \o InsertRanked(Tail(sorted), m)

\* main.rs lines 80-81: sort_by applied to a clone of magnet_infos
RECURSIVE sorted_magnets(_)
sorted_magnets(infos) ==
    IF infos = <<>> THEN <<>>
    ELSE InsertRanked(sorted_magnets(SubSeq(infos, 1, Len(infos) - 1)),
                      infos[Len(infos)])

\* the magnet records a returned record may hold: known and unknown seeder
\* counts, 0 among the known ones
RankedInfos ==
    {MagnetInfo(u, None, None, None, s, None, None, None, None, None) :
        u \in MagnetUris, s \in {None, Some(0), Some(3)}}

\* the record fetch_detail returned to the install command
InstallDetail(c, infos, uris) ==
    AvDetail(c, <<"T">>, None, None, None, None, None, None, None, None, None,
             None, None, None, infos, uris)

\* ------------------------------------------------- texts to parse
\* the characters the texts are built from: letters of both cases, the long
\* s, two separators, two digits and a character no pattern mentions
TextChars == {"a", "B", LongS, "-", " ", "1", "2", "."}

\* longer texts: runs of more than five letters and of more than five
\* digits, a separator of each kind, two separators, a title around a code
LongTexts ==
    {<<"s", "s", "a", "b", "0", "0", "1">>,
     <<"a", "b", "x", "y", "a", "1", "2">>,
     <<"a", "b", "x", "y", "a", "b", "1", "2">>,
     <<"a", "b", "1", "2", "3", "4", "5", "6">>,
     <<"a", "b", "_", "1", "2", "3", "4", "5", "6">>,
     <<"a", "b", "-", "-", "1", "2">>,
     <<"a", "b", "-", "1">>,
     <<"a", "-", "1", "2", "3">>,
     <<"X", "y", " ", "A", "B", "-", "1", "2", "3", " ", "x">>,
     <<LongS, "a", "b", "x", "y", "1", "2">>,
     <<"a", "b", "1", ArabicIndicThree>>}

TitleTexts == SeqsUpTo(TextChars, MaxText) \cup LongTexts

\* ------------------------------------------------- ISO-8601 durations
\* unsigned numbers past the range of a signed 32-bit integer: hi * 65536 + lo
\* with lo < 65536; the number is a u32 exactly when hi < 65536
Limb == 65536
Wide(hi, lo) == [hi |-> hi + (lo \div Limb), lo |-> lo % Limb]
IsU32(n) == n.hi < Limb

DigitChars == <<"0", "1", "2", "3", "4", "5", "6", "7", "8", "9">>
DigitValue(c) == (CHOOSE i \in 1..10 : DigitChars[i] = c) - 1

\* str::parse::<u32>: Err, here None, on a character that is no ASCII digit
\* and on a value beyond u32::MAX
RECURSIVE ParseU32From(_, _)
ParseU32From(acc, digits) ==
    IF digits = <<>> THEN Some(acc)
    ELSE IF Head(digits) \notin Digits THEN None
    ELSE LET next == Wide(acc.hi * 10, acc.lo * 10 + DigitValue(Head(digits)))
         IN  IF IsU32(next) THEN ParseU32From(next, Tail(digits)) ELSE None

ParseU32(digits) ==
    IF digits = <<>> THEN None ELSE ParseU32From(Wide(0, 0), digits)

\* ^PT(?:(\d+)H)?(?:(\d+)M)?$ : the two groups of a match, each an Option of a
\* digit string, or no match
IsoCaptures(s) ==
    IF Len(s) < 2 \/ s[1] # "P" \/ s[2] # "T" THEN [matched |-> FALSE,
                                                    h |-> None, m |-> None]
    ELSE LET a == Drop(s, 2)
             na == LeadingDigits(a)
             hasH == na > 0 /\ Len(a) > na /\ a[na + 1] = "H"
             b == IF hasH THEN Drop(a, na + 1) ELSE a
             nb == LeadingDigits(b)
             hasM == nb > 0 /\ Len(b) > nb /\ b[nb + 1] = "M"
             c == IF hasM THEN Drop(b, nb + 1) ELSE b
         IN  IF c # <<>> THEN [matched |-> FALSE, h |-> None, m |-> None]
             ELSE [matched |-> TRUE,
                   h |-> IF hasH THEN Some(SubSeq(a, 1, na)) ELSE None,
                   m |-> IF hasM THEN Some(SubSeq(b, 1, nb)) ELSE None]

\* caps.get(i).and_then(|m| m.as_str().parse::<u32>().ok()).unwrap_or(0)
GroupOrZero(group) ==
    IF group = None \/ ParseU32(group[1]) = None THEN Wide(0, 0)
    ELSE ParseU32(group[1])[1]

\* h * 60 + m before it is stored into a u32
HoursTimes60PlusMinutes(h, m) == Wide(h.hi * 60 + m.hi, h.lo * 60 + m.lo)

\* the number modulo 2^32
Wrapped(n) == [hi |-> n.hi % Limb, lo |-> n.lo]

\* what a call can end in: a panic, or a returned Option<u32>
Panic == [panics |-> TRUE, val |-> None]
Returns(o) == [panics |-> FALSE, val |-> o]

\* scraper.rs parse_iso8601_duration_minutes: the set of its outcomes. The
\* arithmetic of line 831 is unchecked: where h * 60 + m exceeds u32::MAX a
\* build with overflow checks panics and a build without them wraps
parse_iso8601_duration_minutes(s) ==
    LET caps == IsoCaptures(s)
        h == GroupOrZero(caps.h)
        m == GroupOrZero(caps.m)
        sum == HoursTimes60PlusMinutes(h, m)
    IN  IF ~caps.matched THEN {Returns(None)}
        ELSE IF IsU32(sum) THEN {Returns(Some(sum))}
        ELSE {Panic, Returns(Some(Wrapped(sum)))}

\* the digit strings of the hours and of the minutes of the tokens parsed
HourDigits ==
    {<<"0">>, <<"1">>, <<"0", "1">>, <<"4", "0">>, <<"1", "0", "0">>,
     <<"7", "1", "5", "8", "2", "7", "8", "8">>,
     <<"7", "1", "5", "8", "2", "7", "8", "9">>,
     <<"4", "2", "9", "4", "9", "6", "7", "2", "9", "5">>,
     <<"4", "2", "9", "4", "9", "6", "7", "2", "9", "6">>,
     <<"0", "0", "4", "2", "9", "4", "9", "6", "7", "2", "9", "5">>}

MinuteDigits ==
    {<<"0">>, <<"5">>, <<"1", "5">>, <<"1", "6">>, <<"4", "0">>,
     <<"1", "0", "0">>,
     <<"4", "2", "9", "4", "9", "6", "7", "2", "9", "5">>,
     <<"4", "2", "9", "4", "9", "6", "7", "2", "9", "6">>}

\* PT[H]H[M]M
IsoToken(h, m) ==
    <<"P", "T">> \o (IF h = None THEN <<>> ELSE h[1] \o <<"H">>)
                 \o (IF m = None THEN <<>> ELSE m[1] \o <<"M">>)

IsoTokens ==
    {IsoToken(h, m) : h \in {None} \cup {Some(d) : d \in HourDigits},
                      m \in {None} \cup {Some(d) : d \in MinuteDigits}}

\* texts that are no such token
NoIsoTokens ==
    {<<>>, <<"P">>, <<"P", "T", "5">>, <<"P", "T", "5", "M", "1", "H">>,
     <<"P", "T", "1", "H", " ">>, <<"p", "t", "5", "M">>,
     <<"P", "1", "D">>, <<"P", "T", "H">>}

\* ------------------------------------------------- durations of a JavDB page
\* \s: white space, the no-break space among it
WhiteSpace == {" ", "U+00A0"}

\* the characters of the units, each written as one character of a string
Fen == "U+5206"
Zhong == "U+949F"
Shi == "U+65F6"
Chang == "U+957F"

\* the literal is in s at index i
LiteralAt(s, i, lit) ==
    /\ i + Len(lit) - 1 <= Len(s)
    /\ \A j \in 1..Len(lit) : s[i + j - 1] = lit[j]

\* \d{n} is in s at index i
DigitsAt(s, i, n) ==
    /\ i + n - 1 <= Len(s)
    /\ \A j \in 0..(n - 1) : IsDigit(s[i + j])

\* the index of the first character at or after i that is no white space
RECURSIVE SkipWhiteSpace(_, _)
SkipWhiteSpace(s, i) ==
    IF i <= Len(s) /\ s[i] \in WhiteSpace THEN SkipWhiteSpace(s, i + 1) ELSE i

\* (\d{2,3})\s*(unit|...) matched at index i with n digits
UnitTokenAt(s, i, n, units) ==
    /\ DigitsAt(s, i, n)
    /\ \E u \in units : LiteralAt(s, SkipWhiteSpace(s, i + n), u)

\* the group (\d{2,3}) of the leftmost match of (\d{2,3})\s*(unit|...) at or
\* after index i, three digits tried before two; no unit: (\d{2,3}) alone
RECURSIVE FirstUnitToken(_, _, _)
FirstUnitToken(s, i, units) ==
    IF i > Len(s) THEN None
    ELSE IF UnitTokenAt(s, i, 3, units) THEN Some(SubSeq(s, i, i + 2))
    ELSE IF UnitTokenAt(s, i, 2, units) THEN Some(SubSeq(s, i, i + 1))
    ELSE FirstUnitToken(s, i + 1, units)

\* .captures(..).and_then(|c| c.get(1)).and_then(|m| m.as_str().parse().ok())
MinutesGroup(group) ==
    IF group = None \/ ParseU32(group[1]) = None THEN None
    ELSE Some(ParseU32(group[1])[1].lo)

\* (\d{2,3})
FirstMinutes(s) == MinutesGroup(FirstUnitToken(s, 1, {<<>>}))

\* (\d{2,3})\s*min
FirstMinToken(s) == MinutesGroup(FirstUnitToken(s, 1, {<<"m", "i", "n">>}))

\* (\d{2,3})\s*(分钟|分|min|MIN)
FirstMinutesToken(s) ==
    MinutesGroup(FirstUnitToken(s, 1, {<<Fen, Zhong>>, <<Fen>>,
                                       <<"m", "i", "n">>, <<"M", "I", "N">>}))

\* one block of the info panel: the text of its strong node, of its header
\* node and of its value node
PanelBlock(strong, header, shown) ==
    [strong |-> strong, header |-> header, value |-> shown]

\* the duration part of a detail page of JavDB: the title above the panel,
\* the blocks of the panel, and the duration of the JSON-LD block, if any
DurationPage(title, blocks, ld) == [title |-> title, blocks |-> blocks, ld |-> ld]

\* the text of the blocks, in document order
RECURSIVE BlocksText(_)
BlocksText(blocks) ==
    IF blocks = <<>> THEN <<>>
    ELSE Head(blocks).strong \o Head(blocks).header \o <<" ">>
            \o Head(blocks).value \o <<" ">> \o BlocksText(Tail(blocks))

\* scraper.rs line 404: the text of the whole document
body_text(p) == p.title \o <<" ">> \o BlocksText(p.blocks)

\* scraper.rs lines 309-334: the blocks whose strong text, lower-cased, holds
\* "duration"; each value that yields minutes replaces the duration
RECURSIVE StrongDuration(_, _)
StrongDuration(duration, blocks) ==
    IF blocks = <<>> THEN duration
    ELSE LET bl == Head(blocks)
             m == FirstMinutes(bl.value)
         IN  IF Contains(ToLower(bl.strong),
                         <<"d", "u", "r", "a", "t", "i", "o", "n">>)
                /\ m # None
             THEN StrongDuration(m, Tail(blocks))
             ELSE StrongDuration(duration, Tail(blocks))

\* scraper.rs lines 454-484: the blocks whose header text holds 时长 or Length
RECURSIVE HeaderDuration(_, _)
HeaderDuration(duration, blocks) ==
    IF blocks = <<>> THEN duration
    ELSE LET bl == Head(blocks)
             m == FirstMinutes(bl.value)
         IN  IF (\/ Contains(bl.header, <<Shi, Chang>>)
                 \/ Contains(bl.header, <<"L", "e", "n", "g", "t", "h">>))
                /\ m # None
             THEN HeaderDuration(m, Tail(blocks))
             ELSE HeaderDuration(duration, Tail(blocks))

\* scraper.rs lines 403-410: a bare NN min token of the body text replaces
\* the duration, whether or not a label gave one
BodyMinDuration(duration, p) ==
    IF FirstMinToken(body_text(p)) # None THEN FirstMinToken(body_text(p))
    ELSE duration

\* scraper.rs lines 411-421: a token with any unit, only if none so far
BodyTokenDuration(duration, p) ==
    IF duration = None /\ FirstMinutesToken(body_text(p)) # None
    THEN FirstMinutesToken(body_text(p))
    ELSE duration

\* scraper.rs line 810: the outcomes of parsing the JSON-LD duration
ld_minutes(p) ==
    IF p.ld = None THEN {Returns(None)}
    ELSE parse_iso8601_duration_minutes(p.ld[1])

\* scraper.rs line 507
LdDuration(duration, ld) == IF duration = None THEN ld ELSE duration

\* the duration_minutes of the record parse_javdb_detail builds, given what
\* the JSON-LD block yielded
duration_minutes(p, ld) ==
    LdDuration(
        HeaderDuration(
            BodyTokenDuration(
                BodyMinDuration(StrongDuration(None, p.blocks), p), p),
            p.blocks),
        IF ld = None THEN None ELSE Some(ld[1].lo))

\* the titles, panel blocks and JSON-LD durations of the pages parsed
DurationTitles ==
    {<<>>, <<"x">>, <<"4", "5", " ", "m", "i", "n">>, <<"4", "5", Fen>>}

DurationLabel == <<"D", "u", "r", "a", "t", "i", "o", "n", ":">>

StrongBlocks ==
    {PanelBlock(DurationLabel, <<>>, v) :
        v \in {<<"1", "2", "0", " ", "m", "i", "n", "u", "t", "e">>,
               <<"1", "2", "0", " ", Fen, Zhong>>,
               <<"1", "2", "0">>,
               <<"N", "/", "A">>}}

HeaderBlocks ==
    {PanelBlock(<<>>, <<"L", "e", "n", "g", "t", "h">>, <<"9", "0">>),
     PanelBlock(<<>>, <<Shi, Chang>>, <<"9", "0", Fen, Zhong>>)}

DurationPages ==
    {DurationPage(t, s \o h, ld) :
        t \in DurationTitles,
        s \in {<<>>} \cup {<<bl>> : bl \in StrongBlocks},
        h \in {<<>>} \cup {<<bl>> : bl \in HeaderBlocks},
        ld \in {None, Some(<<"P", "T", "1", "H", "4", "0", "M">>),
                Some(<<"1", "0", "0">>)}}

\* ------------------------------------------------- actors
\* types.rs ActorItem; hot is a u32, held as a Wide
ActorItem(name, hot) == [name |-> name, hot |-> hot]

\* the names on the pages, in the order of str::cmp; "" is the empty name
ActorNames == <<"Aoi", "Mio", "Rin">>
NameRank(name) == CHOOSE i \in 1..Len(ActorNames) : ActorNames[i] = name

WideLess(a, b) == a.hi < b.hi \/ (a.hi = b.hi /\ a.lo < b.lo)

\* scraper.rs lines 747 and 765: (per_page as i64 - idx as i64).max(1) as u32,
\* the cast keeping the low 32 bits
hot_rank(per_page, idx) ==
    IF per_page.hi = 0
    THEN Wide(0, IF per_page.lo - idx > 1 THEN per_page.lo - idx ELSE 1)
    ELSE LET diff == IF per_page.lo >= idx
                     THEN [hi |-> per_page.hi, lo |-> per_page.lo - idx]
                     ELSE [hi |-> per_page.hi - 1,
                           lo |-> per_page.lo + Limb - idx]
         IN  Wrapped(diff)

\* one anchor of the actors grid: the text of its strong node, trimmed, if it
\* has one, and the first comma-separated part of its title attribute,
\* trimmed, if it has one
GridAnchor(strong, title) == [strong |-> strong, title |-> title]

\* scraper.rs lines 741-745: the name of a grid anchor, "" if it has none
GridName(a) ==
    IF a.strong # None /\ a.strong[1] # "" THEN a.strong[1]
    ELSE IF a.title # None THEN a.title[1]
    ELSE ""

\* scraper.rs lines 740-749: the items of the grid anchors from index idx on
RECURSIVE GridItems(_, _, _)
GridItems(anchors, idx, per_page) ==
    IF anchors = <<>> THEN <<>>
    ELSE IF GridName(Head(anchors)) = ""
    THEN GridItems(Tail(anchors), idx + 1, per_page)
    ELSE <<ActorItem(GridName(Head(anchors)), hot_rank(per_page, idx))>>
            \o GridItems(Tail(anchors), idx + 1, per_page)

\* scraper.rs lines 752-754: limited.truncate(per_page) if longer
Limited(grid, per_page) ==
    IF per_page.hi = 0 /\ Len(grid) > per_page.lo
    THEN SubSeq(grid, 1, per_page.lo)
    ELSE grid

\* scraper.rs lines 761-768: the map from name to the greatest hot_rank of
\* the anchors with that name, as the set of its entries
SeenNames(names) == {names[i] : i \in 1..Len(names)} \ {""}

SeenHot(names, name, per_page) ==
    LET ranks == {hot_rank(per_page, i - 1) :
                    i \in {j \in 1..Len(names) : names[j] = name}}
    IN  CHOOSE h \in ranks : \A g \in ranks : ~WideLess(h, g)

Seen(names, per_page) ==
    {ActorItem(n, SeenHot(names, n, per_page)) : n \in SeenNames(names)}

\* the orders in which a HashMap can hand out its entries
IterationOrders(entries) ==
    {s \in [1..Cardinality(entries) -> entries] :
        \A i, j \in 1..Cardinality(entries) : s[i] = s[j] => i = j}

\* scraper.rs line 771: b.hot.cmp(&a.hot).then_with(|| a.name.cmp(&b.name))
\* is Less
ActorBefore(a, b) ==
    \/ WideLess(b.hot, a.hot)
    \/ a.hot = b.hot /\ NameRank(a.name) < NameRank(b.name)

\* sort_by: stable
RECURSIVE InsertActor(_, _)
InsertActor(sorted, a) ==
    IF sorted = <<>> THEN <<a>>
    ELSE IF ActorBefore(a, Head(sorted)) THEN <<a>> \o sorted
    ELSE <<Head(sorted)>> \o InsertActor(Tail(sorted), a)

RECURSIVE SortActors(_)
SortActors(v) ==
    IF v = <<>> THEN <<>>
    ELSE InsertActor(SortActors(SubSeq(v, 1, Len(v) - 1)), v[Len(v)])

\* what JavDB answers to the request of an actors page: a transport
\* failure, a status that is no success, or a page with the greatest page
\* number of its pagination links, its grid anchors and the texts of its
\* anchors to /actors/
ActorsPage(status, pages, grid, anchors) ==
    [status |-> status, pages |-> pages, grid |-> grid, anchors |-> anchors]

GridAnchors ==
    {GridAnchor(Some("Aoi"), None), GridAnchor(Some(""), Some("Mio")),
     GridAnchor(None, Some("Rin")), GridAnchor(Some(""), None)}

ActorsWorlds ==
    {ActorsPage("transport", None, <<>>, <<>>),
     ActorsPage("nosuccess", None, <<>>, <<>>)}
    \cup {ActorsPage("ok", p, g, <<>>) :
            p \in {None, Some(3)}, g \in SeqsUpTo(GridAnchors, MaxEntries)}
    \cup {ActorsPage("ok", p, g, a) :
            p \in {None, Some(3)},
            g \in {<<>>, <<GridAnchor(Some(""), None)>>},
            a \in SeqsUpTo({"Aoi", "Mio", "Rin", ""}, MaxEntries)}

\* the per_page values: small ones and 2^32
PerPages == {Wide(0, 0), Wide(0, 1), Wide(0, 2), Wide(Limb, 0)}

\* scraper.rs lines 710-718
ActorsEndpoints(uncensored) ==
    IF uncensored THEN <<"actors/uncensored">>
    ELSE <<"actors?o=tr", "rankings/actors?period=w",
           "rankings/actors?period=m">>

\* ------------------------------------------------------------- fetch_detail
VARIABLES
    code,               \* the identifier fetch_detail is called with
    av_use_dmm,         \* environment: AV_USE_DMM
    dmm_api_id,         \* environment: DMM_API_ID, None when unset or empty
    dmm_affiliate_id,   \* environment: DMM_AFFILIATE_ID, likewise
    pc,                 \* the adapter call fetch_detail is about to make
    detail,             \* the record being assembled (d, detail, jl)
    result,             \* None while running, then Some(what is returned)
    queried,            \* history: the sources queried so far, in order
    main,               \* history: the main record as its adapter returned it
    mainSrc,            \* history: the source of the main record
    resp,               \* history: each source's answer in this invocation
    op,                 \* the public operation that was invoked
    query,              \* the query or actor name search and list are called with
    limit,              \* the limit top is called with
    row,                \* the listing row whose magnet is being inserted
    items,              \* the listing being assembled (items)
    listing,            \* None while running, then Some(the listing returned)
    calls,              \* history: every adapter call made, with its answer
    text,               \* the text a parsing function is applied to
    value,              \* None, then Some(what the function or actors returned)
    page,               \* the page actors is called with
    per_page,           \* the per_page actors is called with
    uncensored_only,    \* the uncensored_only actors is called with
    all,                \* actors: the entries collected (all)
    total_pages         \* actors: the page count read so far (total_pages)

vars == <<code, av_use_dmm, dmm_api_id, dmm_affiliate_id, pc, detail, result,
          queried, main, mainSrc, resp, op, query, limit, row, items, listing,
          calls, text, value, page, per_page, uncensored_only, all,
          total_pages>>

\* the state of the operations that call no adapter: the parsing functions,
\* the ranking of the install command and actors
aside == <<text, value, page, per_page, uncensored_only, all, total_pages>>

\* none of them has been called
NoAside ==
    /\ text = <<>>
    /\ value = None
    /\ page = 0
    /\ per_page = 0
    /\ uncensored_only = FALSE
    /\ all = <<>>
    /\ total_pages = None

\* what an invocation of fetch_detail leaves alone
env == <<code, av_use_dmm, dmm_api_id, dmm_affiliate_id, op, query, limit, row,
         items, listing, text, value, page, per_page, uncensored_only, all,
         total_pages>>

\* the environments considered: nothing set, the catalog switched on with
\* both tokens, and with either token missing
Envs ==
    {[use |-> None, api |-> None, aff |-> None],
     [use |-> Some("1"), api |-> Some("api"), aff |-> Some("aff")],
     [use |-> Some("1"), api |-> None, aff |-> Some("aff")],
     [use |-> Some("1"), api |-> Some("api"), aff |-> None]}

Codes == {<<"a", "b", "-", "1", "2">>, <<"A", "B", "1", "2">>}
Sources == {"dmm", "javdb", "javlibrary", "sukebei"}

\* scraper.rs line 49
code_upper == ToUpper(code)

Init ==
    /\ code \in Codes
    /\ \E e \in Envs :
        /\ av_use_dmm = e.use
        /\ dmm_api_id = e.api
        /\ dmm_affiliate_id = e.aff
    /\ pc = "dmm"
    /\ detail = None
    /\ result = None
    /\ queried = <<>>
    /\ main = None
    /\ mainSrc = "none"
    /\ resp = [s \in Sources |-> None]
    /\ op = "fetch_detail"
    /\ query = <<>>
    /\ limit = 0
    /\ row = None
    /\ items = <<>>
    /\ listing = None
    /\ calls = <<>>
    /\ NoAside

\* the bookkeeping of one adapter call: r is what the adapter returned and
\* answered tells whether the source answered every request the call made
Called(src, endpoint, r, answered) ==
    calls' = Append(calls, [src |-> src, endpoint |-> endpoint, r |-> r,
                            answered |-> answered])

\* the bookkeeping of one detail lookup
Asked(src, r, answered) ==
    /\ queried' = Append(queried, src)
    /\ resp' = [resp EXCEPT ![src] = Some(r)]
    /\ Called(src, "detail", r, answered)

BecomesMain(src, r) ==
    /\ main' = r.val
    /\ mainSrc' = src

Return(r) ==
    /\ result' = Some(r)
    /\ pc' = "done"

\* scraper.rs line 51
UseDmm == av_use_dmm = Some("1") /\ dmm_enabled(dmm_api_id, dmm_affiliate_id)

\* the merge of lines 57-62 taking the director as well
MergeJavdbAfterDmm_TakesDirector(d, j) ==
    [d EXCEPT
        !.plot = IF d.plot = None /\ j.plot # None THEN j.plot ELSE @,
        !.actor_names = IF d.actor_names = <<>> /\ j.actor_names # <<>>
                        THEN j.actor_names ELSE @,
        !.cover_url = IF d.cover_url = None /\ j.cover_url # None
                      THEN j.cover_url ELSE @,
        !.release_date = IF d.release_date = None THEN j.release_date ELSE @,
        !.duration_minutes = IF d.duration_minutes = None
                             THEN j.duration_minutes ELSE @,
        !.director = IF d.director = None THEN j.director ELSE @]

\* lines 57-62: the catalog record d filled from the JavDB record j
MergeJavdbAfterDmm(d, j) ==
    [d EXCEPT
        !.plot = IF d.plot = None /\ j.plot # None THEN j.plot ELSE @,
        !.actor_names = IF d.actor_names = <<>> /\ j.actor_names # <<>>
                        THEN j.actor_names ELSE @,
        !.cover_url = IF d.cover_url = None /\ j.cover_url # None
                      THEN j.cover_url ELSE @,
        !.release_date = IF d.release_date = None THEN j.release_date ELSE @,
        !.duration_minutes = IF d.duration_minutes = None
                             THEN j.duration_minutes ELSE @]

\* lines 66-67: the catalog record d takes the torrent index's magnets
MergeSukebeiAfterDmm(d, s) ==
    [d EXCEPT
        !.magnets = IF d.magnets = <<>> THEN s.magnets ELSE @,
        !.magnet_infos = IF d.magnet_infos = <<>> THEN s.magnet_infos ELSE @]

\* the merge of lines 77-87 with the cover test of line 80 dropped
MergeJavlibrary_OverwritesCover(d, jl) ==
    LET fill(f) == IF d[f] = <<>> /\ jl[f] # <<>> THEN jl[f] ELSE d[f]
    IN  [d EXCEPT
            !.plot = fill("plot"),
            !.actor_names = fill("actor_names"),
            !.release_date = fill("release_date"),
            !.cover_url = IF jl.cover_url # None THEN jl.cover_url ELSE @,
            !.duration_minutes = fill("duration_minutes"),
            !.director = fill("director"),
            !.studio = fill("studio"),
            !.label = fill("label"),
            !.series = fill("series"),
            !.genres = fill("genres"),
            !.preview_images = fill("preview_images")]

\* lines 77-87: the JavDB record filled from the JavLibrary record jl
MergeJavlibrary(d, jl) ==
    LET fill(f) == IF d[f] = <<>> /\ jl[f] # <<>> THEN jl[f] ELSE d[f]
    IN  [d EXCEPT
            !.plot = fill("plot"),
            !.actor_names = fill("actor_names"),
            !.release_date = fill("release_date"),
            !.cover_url = fill("cover_url"),
            !.duration_minutes = fill("duration_minutes"),
            !.director = fill("director"),
            !.studio = fill("studio"),
            !.label = fill("label"),
            !.series = fill("series"),
            !.genres = fill("genres"),
            !.preview_images = fill("preview_images")]

\* line 89 with the test inverted
NeedsBackfill_Inverted(d) == d.magnets # <<>>

\* line 89
NeedsBackfill(d) == d.magnets = <<>>

\* lines 91-93: the JavDB record takes the torrent index's magnet URIs
BackfillMagnets(d, s) ==
    [d EXCEPT !.magnets = IF s.magnets # <<>> THEN s.magnets ELSE @]

\* lines 102-103 with line 103 left out
MergeSukebeiAfterJavlibrary_UrisOnly(jl, s) ==
    [jl EXCEPT !.magnets = IF jl.magnets = <<>> THEN s.magnets ELSE @]

\* lines 102-103: the JavLibrary record takes the torrent index's magnets
MergeSukebeiAfterJavlibrary(jl, s) ==
    [jl EXCEPT
        !.magnets = IF jl.magnets = <<>> THEN s.magnets ELSE @,
        !.magnet_infos = IF jl.magnet_infos = <<>> THEN s.magnet_infos ELSE @]

\* lines 51-52 and 70-71: the catalog is not enabled
SkipDmm ==
    /\ pc = "dmm"
    /\ ~UseDmm
    /\ pc' = "javdb"
    /\ UNCHANGED <<env, detail, result, queried, main, mainSrc, resp, calls>>

\* line 52: the catalog is queried; its error is returned by the ? operator
QueryDmm ==
    /\ pc = "dmm"
    /\ UseDmm
    /\ \E w \in DmmWorlds :
        LET r == fetch_detail_from_dmm(code_upper, dmm_api_id,
                                       dmm_affiliate_id, w)
        IN  /\ Asked("dmm", r, DmmAnswered(w))
            /\ IF ~r.ok
               THEN /\ Return(r)
                    /\ UNCHANGED <<detail, main, mainSrc>>
               ELSE IF IsHit(r)
               THEN /\ detail' = r.val
                    /\ BecomesMain("dmm", r)
                    /\ pc' = "dmm_javdb"
                    /\ UNCHANGED result
               ELSE /\ pc' = "javdb"
                    /\ UNCHANGED <<detail, main, mainSrc, result>>
    /\ UNCHANGED env

\* lines 55-63
DmmMergeJavdb ==
    /\ pc = "dmm_javdb"
    /\ \E w \in JavdbWorlds :
        LET j == fetch_detail_from_javdb(code_upper, w)
        IN  /\ Asked("javdb", j, JavdbAnswered(w))
            /\ detail' = IF j.ok
                         THEN Some(MergeJavdbAfterDmm(detail[1], j.val[1]))
                         ELSE detail
    /\ pc' = "dmm_sukebei"
    /\ UNCHANGED <<env, result, main, mainSrc>>

\* lines 65-69
DmmMergeSukebei ==
    /\ pc = "dmm_sukebei"
    /\ \E w \in SukebeiWorlds :
        LET s == fetch_detail_from_sukebei(code_upper, w)
            d == IF s.ok THEN MergeSukebeiAfterDmm(detail[1], s.val[1])
                 ELSE detail[1]
        IN  /\ Asked("sukebei", s, SukebeiAnswered(code_upper, w))
            /\ detail' = Some(d)
            /\ Return(OkRec(d))
    /\ UNCHANGED <<env, main, mainSrc>>

\* line 72
QueryJavdb ==
    /\ pc = "javdb"
    /\ \E w \in JavdbWorlds :
        LET r == fetch_detail_from_javdb(code_upper, w)
        IN  /\ Asked("javdb", r, JavdbAnswered(w))
            /\ IF r.ok
               THEN /\ detail' = r.val
                    /\ BecomesMain("javdb", r)
                    /\ pc' = "javdb_javlibrary"
               ELSE /\ pc' = "javlibrary"
                    /\ UNCHANGED <<detail, main, mainSrc>>
    /\ UNCHANGED <<env, result>>

\* lines 75-88 with the JavLibrary call's error returned by a ? operator
JavdbMergeJavlibrary_Propagates ==
    /\ pc = "javdb_javlibrary"
    /\ \E w \in JavlibraryWorlds :
        LET jl == fetch_detail_from_javlibrary(code_upper, w)
        IN  /\ Asked("javlibrary", jl, JavlibraryAnswered(w))
            /\ IF ~jl.ok
               THEN /\ Return(jl)
                    /\ UNCHANGED detail
               ELSE /\ detail' = IF IsHit(jl)
                                 THEN Some(MergeJavlibrary(detail[1], jl.val[1]))
                                 ELSE detail
                    /\ pc' = "javdb_sukebei"
                    /\ UNCHANGED result
    /\ UNCHANGED <<env, main, mainSrc>>

\* lines 75-88
JavdbMergeJavlibrary ==
    /\ pc = "javdb_javlibrary"
    /\ \E w \in JavlibraryWorlds :
        LET jl == fetch_detail_from_javlibrary(code_upper, w)
        IN  /\ Asked("javlibrary", jl, JavlibraryAnswered(w))
            /\ detail' = IF IsHit(jl)
                         THEN Some(MergeJavlibrary(detail[1], jl.val[1]))
                         ELSE detail
    /\ pc' = "javdb_sukebei"
    /\ UNCHANGED <<env, result, main, mainSrc>>

\* lines 89-96, the record has no magnets
JavdbBackfillSukebei ==
    /\ pc = "javdb_sukebei"
    /\ NeedsBackfill(detail[1])
    /\ \E w \in SukebeiWorlds :
        LET s == fetch_detail_from_sukebei(code_upper, w)
            d == IF s.ok THEN BackfillMagnets(detail[1], s.val[1])
                 ELSE detail[1]
        IN  /\ Asked("sukebei", s, SukebeiAnswered(code_upper, w))
            /\ detail' = Some(d)
            /\ Return(OkRec(d))
    /\ UNCHANGED <<env, main, mainSrc>>

\* lines 89 and 96, the record has magnets
JavdbReturn ==
    /\ pc = "javdb_sukebei"
    /\ ~NeedsBackfill(detail[1])
    /\ Return(OkRec(detail[1]))
    /\ UNCHANGED <<env, detail, queried, main, mainSrc, resp, calls>>

\* line 99
QueryJavlibrary ==
    /\ pc = "javlibrary"
    /\ \E w \in JavlibraryWorlds :
        LET r == fetch_detail_from_javlibrary(code_upper, w)
        IN  /\ Asked("javlibrary", r, JavlibraryAnswered(w))
            /\ IF IsHit(r)
               THEN /\ detail' = r.val
                    /\ BecomesMain("javlibrary", r)
                    /\ pc' = "javlibrary_sukebei"
               ELSE /\ pc' = "sukebei"
                    /\ UNCHANGED <<detail, main, mainSrc>>
    /\ UNCHANGED <<env, result>>

\* lines 101-105
JavlibraryMergeSukebei ==
    /\ pc = "javlibrary_sukebei"
    /\ \E w \in SukebeiWorlds :
        LET s == fetch_detail_from_sukebei(code_upper, w)
            d == IF s.ok THEN MergeSukebeiAfterJavlibrary(detail[1], s.val[1])
                 ELSE detail[1]
        IN  /\ Asked("sukebei", s, SukebeiAnswered(code_upper, w))
            /\ detail' = Some(d)
            /\ Return(OkRec(d))
    /\ UNCHANGED <<env, main, mainSrc>>

\* lines 107-108: whatever the torrent index answers is returned
SukebeiOnly ==
    /\ pc = "sukebei"
    /\ \E w \in SukebeiWorlds :
        LET s == fetch_detail_from_sukebei(code_upper, w)
        IN  /\ Asked("sukebei", s, SukebeiAnswered(code_upper, w))
            /\ detail' = s.val
            /\ IF s.ok THEN BecomesMain("sukebei", s)
               ELSE UNCHANGED <<main, mainSrc>>
            /\ Return(s)
    /\ UNCHANGED env

Next ==
    \/ SkipDmm
    \/ QueryDmm
    \/ DmmMergeJavdb
    \/ DmmMergeSukebei
    \/ QueryJavdb
    \/ JavdbMergeJavlibrary
    \/ JavdbBackfillSukebei
    \/ JavdbReturn
    \/ QueryJavlibrary
    \/ JavlibraryMergeSukebei
    \/ SukebeiOnly

Spec == Init /\ [][Next]_vars

\* ----------------------------------------------------- listing operations
\* the queries search and list_actor_titles are called with
Queries == {<<" ", "a", "b", "-", "1", "2", " ">>, <<"x", "y">>}

\* the state of fetch_detail and its environment
fetch == <<detail, result, queried, main, mainSrc, resp>>
settings == <<av_use_dmm, dmm_api_id, dmm_affiliate_id>>

\* no call of fetch_detail has been made
NoFetch ==
    /\ code = <<>>
    /\ detail = None
    /\ result = None
    /\ queried = <<>>
    /\ main = None
    /\ mainSrc = "none"
    /\ resp = [s \in Sources |-> None]

ReturnListing(r) ==
    /\ listing' = Some(r)
    /\ pc' = "returned"

\* ------------------------------------------------------------------- search
SearchInit ==
    /\ op = "search"
    /\ query \in Queries
    /\ \E e \in Envs :
        /\ av_use_dmm = e.use
        /\ dmm_api_id = e.api
        /\ dmm_affiliate_id = e.aff
    /\ pc = "search"
    /\ NoFetch
    /\ limit = 0
    /\ row = None
    /\ items = <<>>
    /\ listing = None
    /\ calls = <<>>
    /\ NoAside

\* scraper.rs line 112
q == Trim(query)

\* lines 112-114 and 118: fetch_detail is called if the query looks like a code
SearchStart ==
    /\ pc = "search"
    /\ IF looks_like_code(q)
       THEN /\ code' = q
            /\ pc' = "dmm"
       ELSE /\ pc' = "search_javdb"
            /\ UNCHANGED code
    /\ UNCHANGED <<settings, aside, fetch, op, query, limit, row, items, listing,
                   calls>>

\* lines 114-116 with the search going on after a direct hit
SearchDirect_SearchesToo ==
    /\ op = "search"
    /\ pc = "done"
    /\ pc' = "search_javdb"
    /\ items' = IF result[1].ok
                THEN <<AvItem(result[1].val[1].code, result[1].val[1].title)>>
                ELSE items
    /\ UNCHANGED <<code, settings, aside, fetch, op, query, limit, row, listing,
                   calls>>

\* lines 114-116: fetch_detail has returned
SearchDirect ==
    /\ op = "search"
    /\ pc = "done"
    /\ IF result[1].ok
       THEN ReturnListing(OkItems(
                <<AvItem(result[1].val[1].code, result[1].val[1].title)>>))
       ELSE /\ pc' = "search_javdb"
            /\ UNCHANGED listing
    /\ UNCHANGED <<code, settings, aside, fetch, op, query, limit, row, items, calls>>

\* lines 118-119 with the fallback taken whatever JavDB yields
SearchJavdb_AlwaysFallsBack ==
    /\ pc = "search_javdb"
    /\ \E w \in JavdbListWorlds :
        LET r == search_javdb(q, w)
        IN  /\ Called("javdb", "search", r, w.status = "ok")
            /\ items' = UnwrapOrEmpty(r)
            /\ pc' = "search_sukebei"
            /\ UNCHANGED listing
    /\ UNCHANGED <<code, settings, aside, fetch, op, query, limit, row>>

\* lines 118-119 and 122
SearchJavdb ==
    /\ pc = "search_javdb"
    /\ \E w \in JavdbListWorlds :
        LET r == search_javdb(q, w)
        IN  /\ Called("javdb", "search", r, w.status = "ok")
            /\ items' = UnwrapOrEmpty(r)
            /\ IF UnwrapOrEmpty(r) = <<>>
               THEN /\ pc' = "search_sukebei"
                    /\ UNCHANGED listing
               ELSE ReturnListing(OkItems(UnwrapOrEmpty(r)))
    /\ UNCHANGED <<code, settings, aside, fetch, op, query, limit, row>>

\* lines 120-122 with the error of Sukebei's search returned by search
SearchSukebei_Propagates ==
    /\ pc = "search_sukebei"
    /\ \E w \in SukebeiListWorlds :
        LET r == search_sukebei(q, w)
        IN  /\ Called("sukebei", "search", r, w.status = "ok")
            /\ items' = UnwrapOrEmpty(r)
            /\ ReturnListing(IF r.ok THEN OkItems(r.val) ELSE r)
    /\ UNCHANGED <<code, settings, aside, fetch, op, query, limit, row>>

\* lines 120-122
SearchSukebei ==
    /\ pc = "search_sukebei"
    /\ \E w \in SukebeiListWorlds :
        LET r == search_sukebei(q, w)
        IN  /\ Called("sukebei", "search", r, w.status = "ok")
            /\ items' = UnwrapOrEmpty(r)
            /\ ReturnListing(OkItems(UnwrapOrEmpty(r)))
    /\ UNCHANGED <<code, settings, aside, fetch, op, query, limit, row>>

SearchNext ==
    \/ SearchStart
    \/ SkipDmm
    \/ QueryDmm
    \/ DmmMergeJavdb
    \/ DmmMergeSukebei
    \/ QueryJavdb
    \/ JavdbMergeJavlibrary
    \/ JavdbBackfillSukebei
    \/ JavdbReturn
    \/ QueryJavlibrary
    \/ JavlibraryMergeSukebei
    \/ SukebeiOnly
    \/ SearchDirect
    \/ SearchJavdb
    \/ SearchSukebei

SearchSpec == SearchInit /\ [][SearchNext]_vars

\* ------------------------------------------------- list_actor_titles and top
ListingInit ==
    /\ \/ /\ op = "list_actor_titles"
          /\ query \in Queries
          /\ limit = 0
          /\ pc = "actor_javdb"
       \/ /\ op = "top"
          /\ query = <<>>
          /\ limit \in 0..MaxLimit
          /\ pc = "top_mr"
    /\ av_use_dmm = None
    /\ dmm_api_id = None
    /\ dmm_affiliate_id = None
    /\ NoFetch
    /\ row = None
    /\ items = <<>>
    /\ listing = None
    /\ calls = <<>>
    /\ NoAside

\* lines 126-127 and 130 with the fallback taken whatever JavDB yields
ListActorJavdb_AlwaysFallsBack ==
    /\ pc = "actor_javdb"
    /\ \E w \in JavdbListWorlds :
        LET r == list_actor_javdb(query, w)
        IN  /\ Called("javdb", "actor", r, w.status = "ok")
            /\ items' = UnwrapOrEmpty(r)
            /\ pc' = "actor_sukebei"
            /\ UNCHANGED listing
    /\ UNCHANGED <<code, settings, aside, fetch, op, query, limit, row>>

\* lines 126-127 and 130
ListActorJavdb ==
    /\ pc = "actor_javdb"
    /\ \E w \in JavdbListWorlds :
        LET r == list_actor_javdb(query, w)
        IN  /\ Called("javdb", "actor", r, w.status = "ok")
            /\ items' = UnwrapOrEmpty(r)
            /\ IF UnwrapOrEmpty(r) = <<>>
               THEN /\ pc' = "actor_sukebei"
                    /\ UNCHANGED listing
               ELSE ReturnListing(OkItems(UnwrapOrEmpty(r)))
    /\ UNCHANGED <<code, settings, aside, fetch, op, query, limit, row>>

\* lines 128-130
ListActorSukebei ==
    /\ pc = "actor_sukebei"
    /\ \E w \in SukebeiListWorlds :
        LET r == list_actor_sukebei(query, w)
        IN  /\ Called("sukebei", "actor", r, w.status = "ok")
            /\ items' = UnwrapOrEmpty(r)
            /\ ReturnListing(OkItems(UnwrapOrEmpty(r)))
    /\ UNCHANGED <<code, settings, aside, fetch, op, query, limit, row>>

\* top, lines 148-160, for one of the two pages: the request's error is
\* returned by the ? operator; after is where top goes on when the page is
\* exhausted below the limit
TopPage(endpoint, after) ==
    \E w \in JavdbListWorlds :
        LET t == TopCards(items, w.cards, limit)
        IN  /\ Called("javdb", endpoint,
                      IF w.status = "ok" THEN OkItems(CardItems(w.cards))
                      ELSE Err("transport"),
                      w.status = "ok")
            /\ IF w.status = "transport"
               THEN /\ ReturnListing(Err("transport"))
                    /\ UNCHANGED items
               ELSE /\ items' = t.items
                    /\ IF t.full \/ after = "returned"
                       THEN ReturnListing(OkItems(t.items))
                       ELSE /\ pc' = after
                            /\ UNCHANGED listing

\* the page /videos?o=mr
TopMostRecent ==
    /\ pc = "top_mr"
    /\ TopPage("top_mr", "top_tr")
    /\ UNCHANGED <<code, settings, aside, fetch, op, query, limit, row>>

\* the page /videos?o=tr and line 162
TopTrending ==
    /\ pc = "top_tr"
    /\ TopPage("top_tr", "returned")
    /\ UNCHANGED <<code, settings, aside, fetch, op, query, limit, row>>

ListingNext ==
    \/ ListActorJavdb
    \/ ListActorSukebei
    \/ TopMostRecent
    \/ TopTrending

ListingSpec == ListingInit /\ [][ListingNext]_vars

\* --------------------------------------- the row insert of Sukebei's adapter
\* the torrent pages and the matching rows the insert is applied to
AggregatePages ==
    {SukebeiPage(Some(<<"S">>), mg, TRUE) :
        mg \in SeqsUpTo(MagnetUris \cup {RowOnlyUri}, MaxMagnets)}

AggregateRows ==
    {SukebeiRow(MatchTitle, Some("/view/2"), mg) :
        mg \in {None} \cup {Some(u) : u \in MagnetUris \cup {RowOnlyUri}}}

\* scraper.rs lines 556-577: the torrent page has been parsed into detail and
\* the matching row's magnet is about to be inserted
AggregateInit ==
    /\ op = "fetch_detail_from_sukebei"
    /\ code \in Codes
    /\ \E p \in AggregatePages, r \in AggregateRows :
        /\ detail = parse_sukebei_detail("ok", p, ToUpper(code), r.title).val
        /\ row = Some(r)
    /\ main = detail
    /\ pc = "insert"
    /\ av_use_dmm = None
    /\ dmm_api_id = None
    /\ dmm_affiliate_id = None
    /\ result = None
    /\ queried = <<>>
    /\ mainSrc = "sukebei"
    /\ resp = [s \in Sources |-> None]
    /\ query = <<>>
    /\ limit = 0
    /\ items = <<>>
    /\ listing = None
    /\ calls = <<>>
    /\ NoAside

\* scraper.rs lines 577-599, applied to the record a first and a second time
InsertRow ==
    /\ pc \in {"insert", "inserted"}
    /\ detail' = Some(InsertRowMagnet(detail[1], row[1]))
    /\ pc' = IF pc = "insert" THEN "inserted" ELSE "inserted_again"
    /\ UNCHANGED <<code, settings, aside, result, queried, main, mainSrc, resp, op,
                   query, limit, row, items, listing, calls>>

AggregateNext == InsertRow

AggregateSpec == AggregateInit /\ [][AggregateNext]_vars

\* ------------------------------------------------------ the install command
\* main.rs lines 67-68: fetch_detail has returned Ok(detail); the record holds
\* magnet records with their raw URIs, or raw URIs only
RankInit ==
    /\ op = "install"
    /\ code \in Codes
    /\ \E infos \in SeqsUpTo(RankedInfos, MaxRanked) :
        \E uris \in {Urls(infos), <<"magnet:1">>} :
            /\ infos # <<>> => uris = Urls(infos)
            /\ detail = Some(InstallDetail(ToUpper(code), infos, uris))
    /\ main = detail
    /\ pc = "install"
    /\ av_use_dmm = None
    /\ dmm_api_id = None
    /\ dmm_affiliate_id = None
    /\ result = None
    /\ queried = <<>>
    /\ mainSrc = "none"
    /\ resp = [s \in Sources |-> None]
    /\ query = <<>>
    /\ limit = 0
    /\ row = None
    /\ items = <<>>
    /\ listing = None
    /\ calls = <<>>
    /\ NoAside

\* main.rs lines 72-100: the lines printed are the URIs of the ranked magnet
\* records, or the raw URIs when the record holds no magnet record
Install ==
    /\ pc = "install"
    /\ LET ranked == IF detail[1].magnet_infos # <<>>
                     THEN sorted_magnets(detail[1].magnet_infos)
                     ELSE <<>>
       IN  value' = Some([sorted_magnets |-> ranked,
                          printed |-> IF detail[1].magnet_infos # <<>>
                                      THEN Urls(ranked)
                                      ELSE detail[1].magnets])
    /\ pc' = "printed"
    /\ UNCHANGED <<code, settings, fetch, op, query, limit, row, items, listing,
                   calls, text, page, per_page, uncensored_only, all,
                   total_pages>>

RankNext == Install

RankSpec == RankInit /\ [][RankNext]_vars

\* ----------------------------------------------------- the parsing functions
\* no adapter is called and no listing is built
NoCalls ==
    /\ av_use_dmm = None
    /\ dmm_api_id = None
    /\ dmm_affiliate_id = None
    /\ NoFetch
    /\ query = <<>>
    /\ limit = 0
    /\ row = None
    /\ items = <<>>
    /\ listing = None
    /\ calls = <<>>

\* the function is not actors
NoActors ==
    /\ page = 0
    /\ per_page = 0
    /\ uncensored_only = FALSE
    /\ all = <<>>
    /\ total_pages = None

\* extract_code_from_title is called with a title
ExtractInit ==
    /\ op = "extract_code_from_title"
    /\ pc = "call"
    /\ text \in TitleTexts
    /\ value = None
    /\ NoCalls
    /\ NoActors

\* scraper.rs lines 786-793
ExtractCode ==
    /\ op = "extract_code_from_title"
    /\ pc = "call"
    /\ value' = Some(extract_code_from_title(text))
    /\ pc' = "returned"
    /\ UNCHANGED <<code, settings, fetch, op, query, limit, row, items, listing,
                   calls, text, page, per_page, uncensored_only, all,
                   total_pages>>

ExtractNext == ExtractCode

ExtractSpec == ExtractInit /\ [][ExtractNext]_vars

\* parse_iso8601_duration_minutes is called with the duration of a JSON-LD
\* block (scraper.rs line 810)
IsoInit ==
    /\ op = "parse_iso8601_duration_minutes"
    /\ pc = "call"
    /\ text \in IsoTokens \cup NoIsoTokens
    /\ value = None
    /\ NoCalls
    /\ NoActors

\* scraper.rs lines 825-832
ParseIso ==
    /\ op = "parse_iso8601_duration_minutes"
    /\ pc = "call"
    /\ \E outcome \in parse_iso8601_duration_minutes(text) :
        /\ value' = Some(outcome)
        /\ pc' = IF outcome.panics THEN "panicked" ELSE "returned"
    /\ UNCHANGED <<code, settings, fetch, op, query, limit, row, items, listing,
                   calls, text, page, per_page, uncensored_only, all,
                   total_pages>>

IsoNext == ParseIso

IsoSpec == IsoInit /\ [][IsoNext]_vars

\* parse_javdb_detail has fetched a detail page and parsed it into a document
DurationInit ==
    /\ op = "parse_javdb_detail"
    /\ pc = "call"
    /\ text \in DurationPages
    /\ value = None
    /\ NoCalls
    /\ NoActors

\* scraper.rs lines 297, 309-334, 403-421, 454-484 and 505-507: the
\* duration_minutes of the record
ParseDuration ==
    /\ op = "parse_javdb_detail"
    /\ pc = "call"
    /\ \E outcome \in ld_minutes(text) :
        IF outcome.panics
        THEN /\ value' = Some(Panic)
             /\ pc' = "panicked"
        ELSE /\ value' = Some(Returns(duration_minutes(text, outcome.val)))
             /\ pc' = "returned"
    /\ UNCHANGED <<code, settings, fetch, op, query, limit, row, items, listing,
                   calls, text, page, per_page, uncensored_only, all,
                   total_pages>>

DurationNext == ParseDuration

DurationSpec == DurationInit /\ [][DurationNext]_vars

\* ---------------------------------------------------------------- actors
\* actors is called; the page numbers are small, so that total_pages *
\* per_page stays below the range of usize
ActorsInit ==
    /\ op = "actors"
    /\ pc = "request"
    /\ page \in 1..2
    /\ per_page \in PerPages
    /\ uncensored_only \in BOOLEAN
    /\ all = <<>>
    /\ total_pages = None
    /\ text = <<>>
    /\ value = None
    /\ NoCalls

\* scraper.rs lines 779-783: Ok((all, total_pages.unwrap_or(page) * per_page))
ActorsOk(entries, pages, n, pp) ==
    OkRec([items |-> entries,
           total_items |-> LET t == IF pages = None THEN n ELSE pages[1]
                           IN  Wide(t * pp.hi, t * pp.lo)])

ReturnActors(r) ==
    /\ value' = Some(r)
    /\ pc' = "returned"

\* scraper.rs lines 722-783: one turn of the loop over the endpoints, and the
\* return when the loop is left: a failed request returns its error; a
\* status that is no success, and a page without a name, lead to the next
\* endpoint; the first page with names ends the loop
ActorsRequest ==
    /\ op = "actors"
    /\ pc = "request"
    /\ \E w \in ActorsWorlds :
        LET endpoints == ActorsEndpoints(uncensored_only)
            url == endpoints[Len(calls) + 1]
            last == Len(calls) + 1 = Len(endpoints)
            pages == IF total_pages = None /\ w.status = "ok" THEN w.pages
                     ELSE total_pages
            grid == GridItems(w.grid, 0, per_page)
            seen == Seen(w.anchors, per_page)
        IN  /\ text' = w
            /\ Called("javdb", url,
                      IF w.status = "transport" THEN Err("transport")
                      ELSE OkNone,
                      w.status = "ok")
            /\ total_pages' = pages
            /\ IF w.status = "transport"
               THEN /\ ReturnActors(Err("transport"))
                    /\ UNCHANGED all
               ELSE IF w.status = "ok" /\ grid # <<>>
               THEN /\ all' = Limited(grid, per_page)
                    /\ ReturnActors(ActorsOk(all', pages, page, per_page))
               ELSE IF w.status = "ok" /\ seen # {}
               THEN \E order \in IterationOrders(seen) :
                        /\ all' = SortActors(order)
                        /\ ReturnActors(ActorsOk(all', pages, page, per_page))
               ELSE /\ UNCHANGED all
                    /\ IF last
                       THEN ReturnActors(ActorsOk(all, pages, page, per_page))
                       ELSE UNCHANGED <<pc, value>>
    /\ UNCHANGED <<code, settings, fetch, op, query, limit, row, items, listing,
                   page, per_page, uncensored_only>>

ActorsNext == ActorsRequest

ActorsSpec == ActorsInit /\ [][ActorsNext]_vars

\* -------------------------------------------- search and list_actor_titles
\* list_actor_titles is called with an actor's name
ListActorInit ==
    /\ op = "list_actor_titles"
    /\ query \in Queries
    /\ limit = 0
    /\ pc = "actor_javdb"
    /\ av_use_dmm = None
    /\ dmm_api_id = None
    /\ dmm_affiliate_id = None
    /\ NoFetch
    /\ row = None
    /\ items = <<>>
    /\ listing = None
    /\ calls = <<>>
    /\ NoAside

\* an invocation of search or of list_actor_titles
CompletionInit == SearchInit \/ ListActorInit

CompletionNext ==
    \/ SearchNext
    \/ ListActorJavdb
    \/ ListActorSukebei

\* every adapter call returns and the future of the invocation is polled to
\* its end (#[tokio::main] blocks on it): a step that can be taken is taken
CompletionSpec ==
    /\ CompletionInit
    /\ [][CompletionNext]_vars
    /\ WF_vars(CompletionNext)

\* ------------------------------------------------------- reading the state
Done == pc = "done"
Succeeded == Done /\ result[1].ok
Failed == Done /\ ~result[1].ok
Returned == result[1].val[1]
WasAsked(src) == resp[src] # None
Answer(src) == resp[src][1]
HitBy(src) == WasAsked(src) /\ IsHit(Answer(src))
FailedAt(src) == WasAsked(src) /\ ~IsHit(Answer(src))

\* ------------------------------------------------------------------ claims
\* the fields the catalog branch fills from its supplementary metadata source
CatalogFilled ==
    {"plot", "actor_names", "cover_url", "release_date", "duration_minutes"}

\* the value of field f of the record source src answered with
From(src, f) == Answer(src).val[1][f]

\* C1: a failure of the catalog, primary or secondary adapter is never
\* returned while a later source can still produce a record: fetch_detail
\* fails only when every source of the chain has been queried and has failed.
C1_FailsOnlyWhenChainExhausted ==
    Failed =>
        /\ FailedAt("javdb")
        /\ FailedAt("javlibrary")
        /\ FailedAt("sukebei")

\* C2: when every source has failed, the outcome of fetch_detail is NotFound,
\* never a transport error, whatever the kind of the adapters' failures.
C2_ExhaustionIsNotFound ==
    (Failed /\ FailedAt("javdb") /\ FailedAt("javlibrary")
            /\ FailedAt("sukebei"))
        => result[1].err = "notfound"

\* C3: when the primary source's record has no magnets and the torrent index
\* answers with two magnet records, the returned record carries exactly those
\* two, in its magnet records and in its raw URIs.
C3_PrimaryTakesBothMagnetRecords ==
    (/\ Succeeded
     /\ mainSrc = "javdb"
     /\ main[1].magnets = <<>>
     /\ HitBy("sukebei")
     /\ Len(From("sukebei", "magnet_infos")) = 2
     /\ Len(From("sukebei", "magnets")) = 2
     /\ From("sukebei", "magnets")[1] # From("sukebei", "magnets")[2])
        => /\ Returned.magnet_infos = From("sukebei", "magnet_infos")
           /\ Returned.magnets = From("sukebei", "magnets")

\* C4: after the primary record is merged with the secondary record, every
\* field holds the primary's value if the primary has it and the secondary's
\* value otherwise; identifier and title, which a record always has, stay the
\* primary's.
C4_MergeKeepsPrimaryElseSecondary ==
    (mainSrc = "javdb" /\ HitBy("javlibrary")) =>
        /\ \A f \in OptionalFields :
              detail[1][f] = IF main[1][f] # <<>> THEN main[1][f]
                             ELSE From("javlibrary", f)
        /\ \A f \in RequiredFields : detail[1][f] = main[1][f]
        /\ pc = "javdb_sukebei" =>
              \A f \in MagnetFields :
                  detail[1][f] = IF main[1][f] # <<>> THEN main[1][f]
                                 ELSE From("javlibrary", f)

\* C4 witness: the merge has filled a field the primary lacked and has kept
\* one that both sources have.
C4_Witness ==
    /\ pc = "javdb_sukebei"
    /\ HitBy("javlibrary")
    /\ main[1].studio = None
    /\ detail[1].studio = From("javlibrary", "studio")
    /\ detail[1].studio # None
    /\ main[1].cover_url # None
    /\ From("javlibrary", "cover_url") # None
    /\ detail[1].cover_url = main[1].cover_url

\* C5: when two sources both answer with magnets for one record, the
\* returned magnet list holds the URIs of both: no source's magnets are
\* dropped.
C5_MagnetsOfAllSourcesKept ==
    Succeeded =>
        \A s1 \in Sources, s2 \in Sources :
            (/\ s1 # s2
             /\ HitBy(s1)
             /\ HitBy(s2)
             /\ From(s1, "magnets") # <<>>
             /\ From(s2, "magnets") # <<>>)
                => Range(Returned.magnets) =
                      Range(From(s1, "magnets")) \cup Range(From(s2, "magnets"))

\* The shape of the catalog branch, with `second` the source queried after
\* the catalog: the sources are queried in the order catalog, second, torrent
\* index and no other; the five fields are the catalog's where it has them and
\* second's otherwise; every other field is the catalog's; the magnets are the
\* torrent index's when the catalog has none.
CatalogBranch(second) ==
    /\ queried = <<"dmm", second, "sukebei">>
    /\ Succeeded
    /\ \A f \in CatalogFilled :
          Returned[f] = IF main[1][f] # <<>> THEN main[1][f]
                        ELSE IF IsHit(Answer(second)) THEN From(second, f)
                        ELSE <<>>
    /\ \A f \in (RequiredFields \cup OptionalFields) \ CatalogFilled :
          Returned[f] = main[1][f]
    /\ \A f \in MagnetFields :
          Returned[f] = IF main[1][f] = <<>> /\ IsHit(Answer("sukebei"))
                        THEN From("sukebei", f)
                        ELSE main[1][f]

\* C6 as stated: after a catalog hit the Secondary Metadata Source
\* (JavLibrary) is queried next, then the torrent index, then fetch_detail
\* returns.
C6_CatalogThenSecondary ==
    (Done /\ mainSrc = "dmm") => CatalogBranch("javlibrary")

\* C6 amended: after a catalog hit the Primary Metadata Source (JavDB) is
\* queried next and supplies only plot, cast, cover, release date and duration
\* where the catalog left them unknown; then the torrent index is queried and
\* supplies the magnets if the catalog has none; then fetch_detail returns.
C6_CatalogThenPrimary ==
    (Done /\ mainSrc = "dmm") => CatalogBranch("javdb")

\* C6 witness: a catalog hit without a cover, filled from JavDB, with magnets
\* from the torrent index.
C6_Witness ==
    /\ Done
    /\ mainSrc = "dmm"
    /\ HitBy("javdb")
    /\ HitBy("sukebei")
    /\ main[1].cover_url = None
    /\ Returned.cover_url # None
    /\ Returned.director = main[1].director
    /\ From("javdb", "director") # None
    /\ Returned.magnets # <<>>

\* the primary source was queried as a main source and failed
PrimaryFailed == FailedAt("javdb") /\ mainSrc # "dmm"

\* the sources queried after the catalog step
AfterCatalog ==
    IF queried # <<>> /\ Head(queried) = "dmm" THEN Tail(queried) ELSE queried

\* C7: when the primary source fails, the secondary source is queried next;
\* if it hits, the torrent index is queried and the secondary record, with
\* the torrent index's magnets when it has none of its own, is returned; the
\* torrent-index-only fallback is reached only if the secondary also fails.
C7_SecondaryAfterPrimaryFails ==
    PrimaryFailed =>
        /\ \E n \in 1..3 :
              AfterCatalog = SubSeq(<<"javdb", "javlibrary", "sukebei">>, 1, n)
        /\ pc = "javlibrary" <=> ~WasAsked("javlibrary")
        /\ pc = "sukebei" => FailedAt("javlibrary")
        /\ pc = "javlibrary_sukebei" => HitBy("javlibrary")
        /\ mainSrc = "sukebei" => FailedAt("javlibrary")
        /\ Done => WasAsked("sukebei")
        /\ (Done /\ HitBy("javlibrary")) =>
              /\ Succeeded
              /\ mainSrc = "javlibrary"
              /\ \A f \in RequiredFields \cup OptionalFields :
                    Returned[f] = From("javlibrary", f)
              /\ \A f \in MagnetFields :
                    Returned[f] =
                        IF From("javlibrary", f) = <<>> /\ HitBy("sukebei")
                        THEN From("sukebei", f)
                        ELSE From("javlibrary", f)
        /\ (Done /\ FailedAt("javlibrary")) => result[1] = Answer("sukebei")

\* C7 witness: primary failed, secondary hit, magnets backfilled.
C7_Witness ==
    /\ Done
    /\ PrimaryFailed
    /\ mainSrc = "javlibrary"
    /\ HitBy("sukebei")
    /\ Returned.magnet_infos # <<>>
    /\ Returned.magnets = From("sukebei", "magnets")

\* C8: fetch_detail never returns a record with an empty magnet list without
\* having queried the torrent index in that invocation.
C8_EmptyMagnetsImpliesTorrentQueried ==
    (Succeeded /\ (Returned.magnets = <<>> \/ Returned.magnet_infos = <<>>))
        => WasAsked("sukebei")

\* C8 witness: a record of the primary source returned without magnets after
\* the torrent index was queried and had none.
C8_Witness ==
    /\ Succeeded
    /\ mainSrc = "javdb"
    /\ Returned.magnets = <<>>
    /\ WasAsked("sukebei")

\* the source of the supplementary metadata fetch, by main source
Supplementary ==
    CASE mainSrc = "dmm" -> "javdb"
      [] mainSrc = "javdb" -> "javlibrary"
      [] OTHER -> "none"

\* C9: once a main source has produced a record, fetch_detail succeeds
\* whatever the supplementary fetches do, keeps every field the main record
\* had, and leaves the fields of a failed supplementary fetch as they were.
C9_SupplementaryFailureLeavesRecord ==
    (Done /\ mainSrc \in {"dmm", "javdb", "javlibrary"}) =>
        /\ Succeeded
        /\ \A f \in AllFields :
              main[1][f] # <<>> => Returned[f] = main[1][f]
        /\ (Supplementary = "none" \/ ~IsHit(Answer(Supplementary))) =>
              \A f \in RequiredFields \cup OptionalFields :
                  Returned[f] = main[1][f]
        /\ ~HitBy("sukebei") =>
              \A f \in MagnetFields : Returned[f] = main[1][f]

\* C9 witness: the primary record returned unchanged after both
\* supplementary fetches failed at transport level.
C9_Witness ==
    /\ Done
    /\ mainSrc = "javdb"
    /\ WasAsked("javlibrary")
    /\ Answer("javlibrary").err = "transport"
    /\ WasAsked("sukebei")
    /\ Answer("sukebei").err = "transport"
    /\ Returned = main[1]

\* C10: every record fetch_detail returns has a non-empty identifier and a
\* non-empty title.
C10_ReturnedHasCodeAndTitle ==
    Succeeded => (Returned.code # <<>> /\ Returned.title # <<>>)

\* no URI occurs twice in a raw URI list
NoRepeat(uris) ==
    \A i \in 1..Len(uris), j \in 1..Len(uris) : uris[i] = uris[j] => i = j

\* C11: no record an adapter answers with, and no record fetch_detail
\* returns, holds the same magnet URI twice, in its magnet records or in its
\* raw URIs, even when the source page shows one magnet link more than once.
C11_NoDuplicateMagnetUris ==
    /\ \A src \in Sources :
          HitBy(src) =>
              /\ NoRepeat(From(src, "magnets"))
              /\ NoRepeat(Urls(From(src, "magnet_infos")))
    /\ Succeeded =>
          /\ NoRepeat(Returned.magnets)
          /\ NoRepeat(Urls(Returned.magnet_infos))

\* the canonical form of an identifier: 2 to 5 upper-case letters, a hyphen,
\* 2 to 5 digits and nothing else
IsCanonical(s) ==
    LET n == LeadingLetters(s)
        rest == Drop(s, n)
    IN  /\ n >= 2
        /\ n <= 5
        /\ SubSeq(s, 1, n) = ToUpper(SubSeq(s, 1, n))
        /\ rest # <<>>
        /\ Head(rest) = "-"
        /\ LeadingDigits(Tail(rest)) >= 2
        /\ LeadingDigits(Tail(rest)) <= 5
        /\ LeadingDigits(Tail(rest)) = Len(Tail(rest))

\* C12: every record an adapter answers with, and every record fetch_detail
\* returns, carries its identifier in the canonical LETTERS-DIGITS upper-case
\* form, whichever spelling of the identifier fetch_detail was called with.
C12_IdentifierIsCanonical ==
    /\ \A src \in Sources : HitBy(src) => IsCanonical(From(src, "code"))
    /\ Succeeded => IsCanonical(Returned.code)

\* fetch_detail was called by search and returned a record
DirectHit == result # None /\ result[1].ok

IsSearchCall(c) == c.endpoint = "search"
\* the calls of search endpoints made so far, in order
SearchCalls == SelectSeq(calls, IsSearchCall)

\* C13: when search is called with a query that looks like an identifier and
\* the direct detail fetch succeeds, search returns exactly one item, built
\* from that record's identifier and title, and no search endpoint of any
\* source is queried.
C13_DirectHitIsTheOnlyItem ==
    (op = "search" /\ DirectHit) =>
        /\ looks_like_code(q)
        /\ pc \in {"done", "returned"}
        /\ SearchCalls = <<>>
        /\ pc = "returned" =>
              listing = Some(OkItems(<<AvItem(Returned.code, Returned.title)>>))

\* C13 witness: search has returned the one item of a direct hit.
C13_Witness ==
    /\ op = "search"
    /\ pc = "returned"
    /\ DirectHit
    /\ Len(listing[1].val) = 1
    /\ listing[1].val[1].code = <<"A", "B", "-", "1", "2">>
    /\ listing[1].val[1].title # <<>>

\* C14: when search does not use a direct detail result, JavDB's search is
\* queried first and Sukebei's search is queried if and only if JavDB's
\* yielded no item, a failed search counting as none; when JavDB yields an
\* item, its items are returned unchanged and Sukebei is not queried.
C14_TorrentSearchIffPrimaryEmpty ==
    (op = "search" /\ ~DirectHit) =>
        /\ pc = "search_sukebei" =>
              /\ Len(SearchCalls) = 1
              /\ SearchCalls[1].src = "javdb"
              /\ UnwrapOrEmpty(SearchCalls[1].r) = <<>>
        /\ pc = "returned" =>
              /\ SearchCalls # <<>>
              /\ SearchCalls[1].src = "javdb"
              /\ IF UnwrapOrEmpty(SearchCalls[1].r) # <<>>
                 THEN /\ Len(SearchCalls) = 1
                      /\ listing = Some(OkItems(SearchCalls[1].r.val))
                 ELSE /\ Len(SearchCalls) = 2
                      /\ SearchCalls[2].src = "sukebei"
                      /\ listing =
                            Some(OkItems(UnwrapOrEmpty(SearchCalls[2].r)))

\* C14 witness: JavDB's search failed and Sukebei's items were returned.
C14_Witness ==
    /\ op = "search"
    /\ pc = "returned"
    /\ ~DirectHit
    /\ Len(SearchCalls) = 2
    /\ ~SearchCalls[1].r.ok
    /\ listing[1].val # <<>>

\* some request of top to JavDB failed, or JavDB yielded no item
TopPrimaryEmptyOrFailed ==
    \/ \E i \in 1..Len(calls) : ~calls[i].r.ok
    \/ \A i \in 1..Len(calls) : UnwrapOrEmpty(calls[i].r) = <<>>

\* C15: when JavDB fails or yields no item, top queries the torrent index
\* for an approximation instead of failing or returning JavDB's empty list.
C15_TopFallsBackToTorrentIndex ==
    (op = "top" /\ pc = "returned" /\ TopPrimaryEmptyOrFailed) =>
        /\ listing[1].ok
        /\ \E i \in 1..Len(calls) : calls[i].src = "sukebei"

\* C16: list_actor_titles returns JavDB's items unchanged when there is at
\* least one, and otherwise, JavDB having failed or yielded none, exactly
\* what Sukebei's search yields; the items of the two are never combined.
C16_ActorListingFallsBackWithoutMerge ==
    (op = "list_actor_titles" /\ pc = "returned") =>
        /\ calls[1].src = "javdb"
        /\ listing[1].ok
        /\ IF UnwrapOrEmpty(calls[1].r) # <<>>
           THEN /\ Len(calls) = 1
                /\ listing[1].val = calls[1].r.val
           ELSE /\ Len(calls) = 2
                /\ calls[2].src = "sukebei"
                /\ listing[1].val = UnwrapOrEmpty(calls[2].r)

\* C16 witness: JavDB's actor listing failed and Sukebei's items were
\* returned.
C16_Witness ==
    /\ op = "list_actor_titles"
    /\ pc = "returned"
    /\ Len(calls) = 2
    /\ ~calls[1].r.ok
    /\ listing[1].val # <<>>

\* the call could not be carried out: it ended in a transport or parse error
FailedCall(c) == ~c.r.ok /\ c.r.err \in {"transport", "parse"}

\* C17: within one invocation, a source whose call has failed is not queried
\* again.
C17_FailedSourceNotQueriedAgain ==
    \A i \in 1..Len(calls), j \in 1..Len(calls) :
        (i < j /\ calls[i].src = calls[j].src) => ~FailedCall(calls[i])

\* a token of the catalog's credential pair is absent
TokenAbsent == dmm_api_id = None \/ dmm_affiliate_id = None

\* C18: when a token of the catalog's credential pair is absent, the catalog
\* adapter answers not-found whatever the catalog would answer to a request,
\* so without making one, and fetch_detail goes on with JavDB as it does when
\* the catalog is switched off: the catalog is never queried, JavDB is the
\* first source queried and no field comes from the catalog.
C18_AbsentTokenDisablesCatalog ==
    TokenAbsent =>
        /\ \A w \in DmmWorlds :
              fetch_detail_from_dmm(code_upper, dmm_api_id, dmm_affiliate_id, w)
                  = OkNone
        /\ ~WasAsked("dmm")
        /\ \A i \in 1..Len(calls) : calls[i].src # "dmm"
        /\ pc # "dmm" =>
              \/ pc = "javdb" /\ queried = <<>>
              \/ queried # <<>> /\ Head(queried) = "javdb"
        /\ mainSrc # "dmm"

\* C18 witness: the catalog is switched on, one token is absent, and
\* fetch_detail has returned the record of JavDB.
C18_Witness ==
    /\ av_use_dmm = Some("1")
    /\ dmm_api_id = None
    /\ dmm_affiliate_id # None
    /\ Succeeded
    /\ mainSrc = "javdb"

\* the outcome by which an adapter says that the source has no matching item:
\* Ok(None) of the catalog and of JavLibrary, the not-found error of JavDB and
\* of Sukebei
NotFoundOutcome(r) == (r.ok /\ r.val = None) \/ (~r.ok /\ r.err = "notfound")

\* C19: a detail lookup ends in the adapter's not-found outcome exactly when
\* the source answered and had no matching item; a lookup that could not be
\* carried out never ends in the outcome of one that found nothing.
C19_NotFoundOnlyWhenSourceAnswered ==
    \A i \in 1..Len(calls) :
        calls[i].endpoint = "detail" =>
            (NotFoundOutcome(calls[i].r)
                <=> (calls[i].answered /\ ~IsHit(calls[i].r)))

\* C20: inserting the row's magnet a second time changes nothing: the record
\* after two inserts is the record after one; and inserting a magnet whose
\* URI the record already holds changes neither the magnet records nor the
\* raw URIs.
C20_InsertIsIdempotent ==
    op = "fetch_detail_from_sukebei" =>
        /\ pc = "inserted_again" =>
              detail[1] = InsertRowMagnet(main[1], row[1])
        /\ (/\ pc # "insert"
            /\ row[1].magnet # None
            /\ row[1].magnet[1] \in Range(main[1].magnets)) =>
                /\ detail[1].magnet_infos = main[1].magnet_infos
                /\ detail[1].magnets = main[1].magnets

\* C20 witness: a magnet the record did not hold has been inserted twice and
\* is held once.
C20_Witness ==
    /\ op = "fetch_detail_from_sukebei"
    /\ pc = "inserted_again"
    /\ row[1].magnet = Some(RowOnlyUri)
    /\ RowOnlyUri \notin Range(main[1].magnets)
    /\ main[1].magnets # <<>>
    /\ detail[1].magnets = Append(main[1].magnets, RowOnlyUri)
    /\ Len(detail[1].magnet_infos) = Len(main[1].magnet_infos) + 1

\* C26: whenever fetch_detail succeeds, the identifier of the record returned
\* is the requested code in upper case, whichever source supplied the record.
C26_ReturnedIdentifierIsTheRequested ==
    Succeeded => Returned.code = code_upper

\* C27: in every record fetch_detail returns, the URIs of the magnet records
\* are, as a set, the raw magnet URIs.
C27_MagnetListsDescribeTheSameMagnets ==
    Succeeded => Range(Urls(Returned.magnet_infos)) = Range(Returned.magnets)

\* C28: top(limit) returns at most limit items, for limit = 0 too, and each
\* item returned has a non-empty upper-case identifier and a non-empty title.
C28_TopReturnsAtMostLimit ==
    (op = "top" /\ pc = "returned" /\ listing[1].ok) =>
        /\ Len(listing[1].val) <= limit
        /\ \A i \in 1..Len(listing[1].val) :
              /\ listing[1].val[i].code # <<>>
              /\ listing[1].val[i].code = ToUpper(listing[1].val[i].code)
              /\ listing[1].val[i].title # <<>>

\* the number of times x occurs in a list
RECURSIVE Count(_, _)
Count(s, x) ==
    IF s = <<>> THEN 0
    ELSE (IF Head(s) = x THEN 1 ELSE 0) + Count(Tail(s), x)

\* the seeder count a record is ranked by, an unknown count being 0
RankOf(m) == IF m.seeders = None THEN 0 ELSE m.seeders[1]

\* the records of a list ranked by k, in the order of the list
RECURSIVE WithRank(_, _)
WithRank(s, k) ==
    IF s = <<>> THEN <<>>
    ELSE IF RankOf(Head(s)) = k THEN <<Head(s)>> \o WithRank(Tail(s), k)
    ELSE WithRank(Tail(s), k)

\* C21: the ranked list of the install command is a permutation of the
\* record's magnet records (same length, every record as often as in the
\* input), in descending order of seeders with an unknown count as 0, records
\* of equal count in their input order; and the record's own list is as it
\* was.
C21_RankingIsAStableView ==
    (op = "install" /\ pc = "printed" /\ main[1].magnet_infos # <<>>) =>
        LET input == main[1].magnet_infos
            ranked == value[1].sorted_magnets
        IN  /\ Len(ranked) = Len(input)
            /\ \A m \in Range(input) \cup Range(ranked) :
                  Count(ranked, m) = Count(input, m)
            /\ \A i \in 1..Len(ranked), j \in 1..Len(ranked) :
                  i < j => RankOf(ranked[i]) >= RankOf(ranked[j])
            /\ \A k \in {RankOf(m) : m \in Range(input)} :
                  WithRank(ranked, k) = WithRank(input, k)
            /\ detail = main
            /\ detail[1].magnet_infos = input

\* C21 witness: three records were ranked, one with an unknown count placed
\* first in the input and two of equal known counts; the ranked list is not
\* the input list.
C21_Witness ==
    /\ op = "install"
    /\ pc = "printed"
    /\ Len(main[1].magnet_infos) = 3
    /\ main[1].magnet_infos[1].seeders = None
    /\ main[1].magnet_infos[2].seeders = Some(3)
    /\ main[1].magnet_infos[3].seeders = Some(3)
    /\ main[1].magnet_infos[2] # main[1].magnet_infos[3]
    /\ value[1].sorted_magnets
          = <<main[1].magnet_infos[2], main[1].magnet_infos[3],
              main[1].magnet_infos[1]>>
    /\ detail[1].magnet_infos = main[1].magnet_infos

AsciiLetters == Range(LowerLetters) \cup Range(UpperLetters)

RECURSIVE LeadingAsciiLetters(_)
LeadingAsciiLetters(s) ==
    IF s # <<>> /\ Head(s) \in AsciiLetters
    THEN 1 + LeadingAsciiLetters(Tail(s))
    ELSE 0

\* what follows the letters that s begins with, an optional single separator
\* among '-', '_' and space left out
AfterLetters(s) ==
    LET rest == Drop(s, LeadingAsciiLetters(s))
    IN  IF rest # <<>> /\ rest[1] \in {"-", "_", " "} THEN Tail(rest) ELSE rest

\* s begins with 2 to 5 ASCII letters, an optional separator and 2 or more
\* digits
BeginsWithIdentifier(s) ==
    /\ LeadingAsciiLetters(s) \in 2..5
    /\ LeadingDigits(AfterLetters(s)) >= 2

\* the letters in upper case, a hyphen, and the digits, 5 of them at most
IdentifierAtStart(s) ==
    LET n == LeadingAsciiLetters(s)
        k == LeadingDigits(AfterLetters(s))
    IN  [i \in 1..n |-> ToUpperChar(s[i])] \o <<"-">>
            \o SubSeq(AfterLetters(s), 1, IF k > 5 THEN 5 ELSE k)

\* the pattern is somewhere in s
HoldsIdentifier(s) ==
    \E i \in 0..Len(s) : BeginsWithIdentifier(Drop(s, i))

\* C22: for a text that begins with 2 to 5 ASCII letters, an optional single
\* separator and 2 to 5 digits, extract_code_from_title returns the letters in
\* upper case, a hyphen and the digits; for a text that holds no such pattern
\* anywhere it returns None.
C22_ExtractIdentifier ==
    (op = "extract_code_from_title" /\ pc = "returned") =>
        /\ BeginsWithIdentifier(text) =>
              value[1] = Some(IdentifierAtStart(text))
        /\ ~HoldsIdentifier(text) => value[1] = None

\* the number a digit string denotes, whatever its length
RECURSIVE DecimalFrom(_, _)
DecimalFrom(acc, digits) ==
    IF digits = <<>> THEN acc
    ELSE DecimalFrom(Wide(acc.hi * 10,
                          acc.lo * 10 + DigitValue(Head(digits))),
                     Tail(digits))

Decimal(group) == IF group = None THEN Wide(0, 0)
                  ELSE DecimalFrom(Wide(0, 0), group[1])

\* the text is PT[H]H[M]M with ASCII digits, and its H*60+M
IsIsoToken(s) ==
    /\ IsoCaptures(s).matched
    /\ \A i \in 1..Len(s) : s[i] \in Digits \cup {"P", "T", "H", "M"}

MinutesOf(s) ==
    LET h == Decimal(IsoCaptures(s).h)
        m == Decimal(IsoCaptures(s).m)
    IN  Wide(h.hi * 60 + m.hi, h.lo * 60 + m.lo)

\* C25: for every token PT[H]H[M]M, hours and minutes both optional, the
\* call of parse_iso8601_duration_minutes ends by returning H*60+M, an
\* omitted part counting as 0, as a u32: it does not panic, and it returns
\* neither a wrapped value nor any other number.
C25_IsoDurationIsExact ==
    (op = "parse_iso8601_duration_minutes" /\ pc # "call" /\ IsIsoToken(text))
        => /\ ~value[1].panics
           /\ value[1].val = Some(MinutesOf(text))
           /\ IsU32(MinutesOf(text))

\* what each strategy finds on the page, taken alone: the labelled minutes
\* fields (one value per labelled block that shows minutes), the first bare
\* token of the page text, the JSON-LD duration
LabelledMinutes(p) ==
    ({StrongDuration(None, <<p.blocks[i]>>) : i \in 1..Len(p.blocks)}
        \cup {HeaderDuration(None, <<p.blocks[i]>>) : i \in 1..Len(p.blocks)})
    \ {None}

BareToken(p) == FirstMinutesToken(body_text(p))

IsoMinutes(p) ==
    IF p.ld = None \/ ~IsoCaptures(p.ld[1]).matched THEN None
    ELSE Some(MinutesOf(p.ld[1]).lo)

\* C24: the duration of the record is what the first strategy that finds
\* something finds, in the order labelled minutes field, bare token of the
\* page text, ISO-8601 token: a labelled value is not replaced by a bare token
\* or by the ISO-8601 duration, and a lower strategy is used only when every
\* higher one found nothing.
C24_FirstDurationStrategyWins ==
    (op = "parse_javdb_detail" /\ pc = "returned") =>
        LET duration == value[1].val
        IN  /\ LabelledMinutes(text) # {} => duration \in LabelledMinutes(text)
            /\ (LabelledMinutes(text) = {} /\ BareToken(text) # None) =>
                  duration = BareToken(text)
            /\ (LabelledMinutes(text) = {} /\ BareToken(text) = None) =>
                  duration = IsoMinutes(text)

\* actors has returned Ok, and the entries it returned
ActorsReturned == op = "actors" /\ pc = "returned" /\ value[1].ok
ActorEntries == value[1].val[1].items

\* the entries were taken from the anchors to /actors/ of the fetched page
FromAnchors ==
    /\ text.status = "ok"
    /\ GridItems(text.grid, 0, per_page) = <<>>
    /\ Seen(text.anchors, per_page) # {}

\* the list is in descending order of hot
Descending(entries) ==
    \A i \in 1..Len(entries), j \in 1..Len(entries) :
        i < j => ~WideLess(entries[i].hot, entries[j].hot)

\* the one list of the entries of the name map that is in descending order
\* of hot, entries of equal hot in the order of their names
ByHotThenName(entries) ==
    CHOOSE s \in IterationOrders(entries) :
        \A i \in 1..Len(s), j \in 1..Len(s) :
            i < j => \/ WideLess(s[j].hot, s[i].hot)
                     \/ /\ s[i].hot = s[j].hot
                        /\ NameRank(s[i].name) < NameRank(s[j].name)

\* C23: the list actors returns is in descending order of hot, and the order
\* of entries of equal hot is fixed by the fetched page: the list built from
\* the name map is the same whatever order the map hands out its entries in.
C23_ActorsSortedAndDeterministic ==
    ActorsReturned =>
        /\ Descending(ActorEntries)
        /\ FromAnchors =>
              ActorEntries = ByHotThenName(Seen(text.anchors, per_page))

\* C29: actors returns at most per_page entries, each with hot at least 1,
\* from the actor grid as from the anchors of the older layout.
C29_ActorsAtMostPerPage ==
    ActorsReturned =>
        /\ per_page.hi = 0 => Len(ActorEntries) <= per_page.lo
        /\ \A i \in 1..Len(ActorEntries) :
              ~WideLess(ActorEntries[i].hot, Wide(0, 1))

\* the calls of the listing endpoints made so far yielded no item, and the
\* direct detail fetch, if there was one, failed
EverySourceFailedOrEmpty ==
    /\ result # None => ~result[1].ok
    /\ \A i \in 1..Len(calls) :
          calls[i].endpoint \in {"search", "actor"} =>
              (~calls[i].r.ok \/ calls[i].r.val = <<>>)

\* what search or list_actor_titles has returned is a list, the empty list if
\* every source failed or found nothing
ReturnsAList ==
    (op \in {"search", "list_actor_titles"} /\ pc = "returned") =>
        /\ listing # None
        /\ listing[1].ok
        /\ EverySourceFailedOrEmpty => listing[1] = OkItems(<<>>)

\* C30: search and list_actor_titles never return an error: with every
\* adapter call returning, each invocation ends by returning a list, and the
\* list is empty when every source failed or found nothing, a failed direct
\* detail fetch included.
C30_ListingsNeverFail == []ReturnsAList /\ <>(pc = "returned")

\* C30 witness: search was called with a query that looks like a code, the
\* detail fetch failed, both searches failed with a transport error, and
\* search returned the empty list.
C30_Witness ==
    /\ op = "search"
    /\ pc = "returned"
    /\ result # None
    /\ ~result[1].ok
    /\ Len(SearchCalls) = 2
    /\ \A i \in 1..2 : ~SearchCalls[i].r.ok /\ SearchCalls[i].r.err = "transport"
    /\ listing[1] = OkItems(<<>>)

====
